---- MODULE Spec2Model ----
(***************************************************************************)
(* Model of youtube_dl/extractor/common.py (InfoExtractor): the format     *)
(* selector (_sort_formats, _remove_duplicate_formats, _check_formats),    *)
(* the DASH fragment reconstruction of _parse_mpd_formats and the HLS      *)
(* master playlist walk of _extract_m3u8_formats.                          *)
(*                                                                         *)
(* Python values.  None is the empty tuple and a value v that is present   *)
(* is the one-element tuple <<v>>.  A dict is a function whose DOMAIN is   *)
(* the set of keys that are present, so "k in f" and "f.get(k) is None"    *)
(* stay different questions.  A string that is ordered (format_id) is the  *)
(* tuple of its character codes; a string that is only compared for        *)
(* equality is a TLA+ string.  The two fractional sort-key components       *)
(* (preference, proto_preference) are kept in tenths: -0.5 is -5, and the  *)
(* -50 / -40 penalties are -500 / -400.                                    *)
(***************************************************************************)
EXTENDS Integers, Sequences, FiniteSets, TLC

VARIABLES
    formats,              \* the descriptor list the selector works on
    formats_in,           \* the list as it was handed to the last operation
    op,                   \* the last selector operation that ran
    raised,               \* the exception that left the last operation, or None
    probes,               \* urlopen's outcome for each descriptor of the last _check_formats
    prefer_free_formats,  \* self._downloader.params.get('prefer_free_formats')
    mpd_doc,              \* the MPD document handed to _parse_mpd_formats
    mpd_id,               \* its mpd_id argument
    mpd_pos,              \* how far the Period / AdaptationSet / Representation walk got
    mpd_formats,          \* the formats list of _parse_mpd_formats
    mpd_ms_info,          \* representation_ms_info of the last Representation parsed
    mpd_raised,           \* the exception that ended the parse, or None
    m3u8_doc,             \* the lines of the playlist _extract_m3u8_formats downloaded
    m3u8_args,            \* its arguments ext, entry_protocol, preference, m3u8_id, live
    m3u8_pc,              \* "idle", "start", "walk", "done" or "raised"
    m3u8_line,            \* the number of lines walked
    m3u8_walk,            \* formats, last_info, last_media, audio_in_video_stream
    ism_doc,              \* the ISM document handed to _parse_ism_formats
    ism_id,               \* its ism_id argument
    ism_pos,              \* how far the StreamIndex / QualityLevel walk got
    ism_formats,          \* the formats list of _parse_ism_formats
    ism_raised,           \* the exception that ended the parse, or None
    f4m_web,              \* what a download of each manifest URL finds
    f4m_args,             \* the arguments fatal, f4m_id, m3u8_id, preference of the call
    f4m_pc,               \* "idle", "call", "media", "return", "done" or "raised"
    f4m_call,             \* the URL _extract_f4m_formats has been called with
    f4m_stack,            \* the _parse_f4m_formats invocations in progress
    f4m_ret,              \* the list the last invocation returned
    f4m_log,              \* the URLs fetched, the warnings reported, the parser runs
    ep,                   \* the entry point called: "f4m", "m3u8", "mpd", "ism", "smil", "xspf"
    dl_pc,                \* "idle", "try", "sleep", "returned", "raised" or "done"
    dl_args,              \* caller, fatal, errnote, tries, timeout of the download
    try_count,            \* try_count of _download_webpage
    dl_res,               \* what the download returned, or the exception that left it
    dl_log                \* the attempts made and the sleeps between them

selVars == <<formats, formats_in, op, raised, probes, prefer_free_formats>>
mpdVars == <<mpd_doc, mpd_id, mpd_pos, mpd_formats, mpd_ms_info, mpd_raised>>
m3u8Vars == <<m3u8_doc, m3u8_args, m3u8_pc, m3u8_line, m3u8_walk>>
ismVars == <<ism_doc, ism_id, ism_pos, ism_formats, ism_raised>>
f4mVars == <<f4m_web, f4m_args, f4m_pc, f4m_call, f4m_stack, f4m_ret, f4m_log, ep>>
dlVars == <<dl_pc, dl_args, try_count, dl_res, dl_log>>
vars == <<formats, formats_in, op, raised, probes, prefer_free_formats,
          mpd_doc, mpd_id, mpd_pos, mpd_formats, mpd_ms_info, mpd_raised,
          m3u8_doc, m3u8_args, m3u8_pc, m3u8_line, m3u8_walk,
          ism_doc, ism_id, ism_pos, ism_formats, ism_raised,
          f4m_web, f4m_args, f4m_pc, f4m_call, f4m_stack, f4m_ret, f4m_log, ep,
         dl_pc, dl_args, try_count, dl_res, dl_log>>

None == <<>>
Some(v) == <<v>>

\* dict.get(k)
Get(f, k) == IF k \in DOMAIN f THEN f[k] ELSE None

\* Python truthiness of an optional string
TruthyStr(x) == x # None /\ x[1] # ""

\* f with key k set to v (f[k] = v)
SetKey(f, k, v) == [x \in (DOMAIN f) \cup {k} |-> IF x = k THEN v ELSE f[x]]

(***************************************************************************)
(* Bounds                                                                  *)
(***************************************************************************)
MaxFormats == 3
MaxTimeline == 2
MaxEntries == 2
MaxRepresentations == 2
MaxChunks == 2
MaxMedia == 2
MaxDepth == 4
MaxSegmentUrls == 3
\* the lines of a master playlist drawn from the line pool
MaxLines == 4
\* the largest tries argument of _download_webpage
MaxTries == 3

(***************************************************************************)
(* URLs: scheme ("" for a protocol-relative //host/... URL), a name and    *)
(* the extension after the last dot of the path ("" when there is none).   *)
(***************************************************************************)
Url(scheme, name, ext) == [scheme |-> scheme, name |-> name, ext |-> ext]

UrlA == Url("http", "a", "mp4")
UrlB == Url("https", "b", "webm")
UrlC == Url("rtsp", "c", "")
UrlD == Url("", "d", "m4a")
UrlE == Url("http", "e", "f4m")

\* utils.determine_ext: the extension of the URL's path, 'unknown_video' without one
determine_ext(url) == IF url.ext = "" THEN "unknown_video" ELSE url.ext

\* utils.determine_protocol
determine_protocol(f) ==
    IF Get(f, "protocol") # None THEN f["protocol"][1]
    ELSE LET url == f["url"][1]
         IN  IF url.scheme \in {"rtmp", "mms", "rtsp"} THEN url.scheme
             ELSE IF determine_ext(url) = "m3u8" THEN "m3u8"
             ELSE IF determine_ext(url) = "f4m" THEN "f4m"
             ELSE url.scheme

(***************************************************************************)
(* _sort_formats                                                           *)
(***************************************************************************)
\* list.index(x), -1 for the ValueError branch
IndexOf(order, x) ==
    IF \E i \in 1..Len(order) : order[i] = x
    THEN (CHOOSE i \in 1..Len(order) : order[i] = x /\ \A j \in 1..(i - 1) : order[j] # x) - 1
    ELSE -1

\* tbr = abr + vbr whenever both are known, a tbr that is there overwritten
SynthTbrAlways(f) ==
    IF Get(f, "abr") # None /\ Get(f, "vbr") # None
    THEN SetKey(f, "tbr", Some(f["abr"][1] + f["vbr"][1]))
    ELSE f

\* lines 928-932: tbr = abr + vbr when the key tbr is missing and both are known
SynthTbr(f) ==
    IF "tbr" \notin DOMAIN f /\ Get(f, "abr") # None /\ Get(f, "vbr") # None
    THEN SetKey(f, "tbr", Some(f["abr"][1] + f["vbr"][1]))
    ELSE f

\* lines 937-938: ext from the url when ext is missing or empty
DeriveExt(f) ==
    IF ~TruthyStr(Get(f, "ext")) /\ "url" \in DOMAIN f
    THEN SetKey(f, "ext", Some(determine_ext(f["url"][1])))
    ELSE f

\* f.get(k) if f.get(k) is not None else d
NumOr(f, k, d) == IF Get(f, k) # None THEN f[k][1] ELSE d

AudioOrder(free) ==
    IF free THEN <<"aac", "mp3", "m4a", "webm", "ogg", "opus">>
    ELSE <<"webm", "opus", "ogg", "mp3", "aac", "m4a">>

VideoOrder(free) ==
    IF free THEN <<"flv", "mp4", "webm">>
    ELSE <<"webm", "flv", "mp4">>

\* lines 947-951: the explicit preference, or 0 (-0.5 for f4f/f4m), in tenths
BasePreference(f) ==
    IF Get(f, "preference") # None THEN 10 * f["preference"][1]
    ELSE IF Get(f, "ext") \in {Some("f4f"), Some("f4m")} THEN -5
    ELSE 0

\* lines 956-957, 968-969: the audio-only / video-only penalty, in tenths
CodecPenalty(f) ==
    IF Get(f, "vcodec") = Some("none") THEN -500
    ELSE IF Get(f, "acodec") = Some("none") THEN -400
    ELSE 0

\* lines 953-954, in tenths
ProtoPreference(f) ==
    LET protocol == IF TruthyStr(Get(f, "protocol")) THEN f["protocol"][1]
                    ELSE determine_protocol(f)
    IN  IF protocol \in {"http", "https"} THEN 0
        ELSE IF protocol = "rtsp" THEN -5 ELSE -1

ExtPreference(f, free) ==
    IF Get(f, "vcodec") = Some("none") THEN 0
    ELSE IndexOf(VideoOrder(free), f["ext"][1])

AudioExtPreference(f, free) ==
    IF Get(f, "vcodec") = Some("none") THEN IndexOf(AudioOrder(free), f["ext"][1])
    ELSE 0

\* the key with its last component left out: ties are left to the input order
FormatsKeyWithoutId(f, free) ==
    << BasePreference(f) + CodecPenalty(f),
       NumOr(f, "language_preference", -1),
       NumOr(f, "quality", -1),
       NumOr(f, "tbr", -1),
       NumOr(f, "filesize", -1),
       NumOr(f, "vbr", -1),
       NumOr(f, "height", -1),
       NumOr(f, "width", -1),
       ProtoPreference(f),
       ExtPreference(f, free),
       NumOr(f, "abr", -1),
       AudioExtPreference(f, free),
       NumOr(f, "fps", -1),
       NumOr(f, "filesize_approx", -1),
       NumOr(f, "source_preference", -1),
       <<>> >>

\* lines 980-997: the key of a descriptor whose ext has been derived
FormatsKey(f, free) ==
    << BasePreference(f) + CodecPenalty(f),
       NumOr(f, "language_preference", -1),
       NumOr(f, "quality", -1),
       NumOr(f, "tbr", -1),
       NumOr(f, "filesize", -1),
       NumOr(f, "vbr", -1),
       NumOr(f, "height", -1),
       NumOr(f, "width", -1),
       ProtoPreference(f),
       ExtPreference(f, free),
       NumOr(f, "abr", -1),
       AudioExtPreference(f, free),
       NumOr(f, "fps", -1),
       NumOr(f, "filesize_approx", -1),
       NumOr(f, "source_preference", -1),
       IF Get(f, "format_id") # None THEN f["format_id"][1] ELSE <<>> >>

\* str < str: the first differing character decides, a proper prefix is smaller
StrLess(s, t) ==
    \E i \in 1..(Len(t)) :
        /\ \A j \in 1..(i - 1) : j <= Len(s) /\ s[j] = t[j]
        /\ (i > Len(s) \/ (i <= Len(s) /\ s[i] < t[i]))
        /\ i - 1 <= Len(s)

\* tuple < tuple for two keys: the first differing component decides
KeyLess(a, b) ==
    \E i \in 1..16 :
        /\ \A j \in 1..(i - 1) : a[j] = b[j]
        /\ IF i = 16 THEN StrLess(a[i], b[i]) ELSE a[i] < b[i]

KeyLeq(a, b) == a = b \/ KeyLess(a, b)

\* list.sort(key=...): stable, so an element goes after every element whose key
\* is not greater than its own
RECURSIVE InsertByKey(_, _, _)
InsertByKey(sorted, f, free) ==
    IF sorted = <<>> THEN <<f>>
    ELSE IF KeyLess(FormatsKey(f, free), FormatsKey(sorted[Len(sorted)], free))
         THEN Append(InsertByKey(SubSeq(sorted, 1, Len(sorted) - 1), f, free),
                     sorted[Len(sorted)])
         ELSE Append(sorted, f)

RECURSIVE SortByKey(_, _)
SortByKey(fs, free) ==
    IF fs = <<>> THEN <<>>
    ELSE InsertByKey(SortByKey(SubSeq(fs, 1, Len(fs) - 1), free), fs[Len(fs)], free)

\* the descriptors completed (tbr, ext) but left in the order they came in
CompletedFormats(fs, free) ==
    [i \in 1..Len(fs) |-> DeriveExt(SynthTbr(fs[i]))]

\* the list _sort_formats leaves behind (field_preference is None)
SortedFormats(fs, free) ==
    SortByKey([i \in 1..Len(fs) |-> DeriveExt(SynthTbr(fs[i]))], free)

(***************************************************************************)
(* _remove_duplicate_formats                                               *)
(***************************************************************************)
RECURSIVE UniqueFrom(_, _, _)
UniqueFrom(fs, format_urls, unique_formats) ==
    IF fs = <<>> THEN unique_formats
    ELSE IF fs[1]["url"] \notin format_urls
         THEN UniqueFrom(Tail(fs), format_urls \cup {fs[1]["url"]},
                         Append(unique_formats, fs[1]))
         ELSE UniqueFrom(Tail(fs), format_urls, unique_formats)

\* the list edited while it is walked: the element after a removed one is never visited
RECURSIVE UniqueSkipping(_, _, _)
UniqueSkipping(fs, format_urls, unique_formats) ==
    IF fs = <<>> THEN unique_formats
    ELSE IF fs[1]["url"] \notin format_urls
         THEN UniqueSkipping(Tail(fs), format_urls \cup {fs[1]["url"]},
                             Append(unique_formats, fs[1]))
         ELSE IF Len(fs) = 1 THEN unique_formats
         ELSE UniqueSkipping(Tail(Tail(fs)), format_urls, Append(unique_formats, fs[2]))

UniqueFormatsSkipping(fs) == UniqueSkipping(fs, {}, <<>>)

\* duplicates told by format_id instead of url
RECURSIVE UniqueById(_, _, _)
UniqueById(fs, ids, unique_formats) ==
    IF fs = <<>> THEN unique_formats
    ELSE IF Get(fs[1], "format_id") \notin ids
         THEN UniqueById(Tail(fs), ids \cup {Get(fs[1], "format_id")},
                         Append(unique_formats, fs[1]))
         ELSE UniqueById(Tail(fs), ids, unique_formats)

UniqueFormatsById(fs) == UniqueById(fs, {}, <<>>)

UniqueFormats(fs) == UniqueFrom(fs, {}, <<>>)

(***************************************************************************)
(* _request_webpage, _is_valid_url, _check_formats                         *)
(***************************************************************************)
\* what self._downloader.urlopen does: a handle, or one of the three caught errors
UrlopenOutcomes == {"ok", "URLError", "HTTPException", "socket.error"}

\* _proto_relative_url(url, scheme='http:')
proto_relative_url(url) ==
    IF url.scheme = "" THEN [url EXCEPT !.scheme = "http"] ELSE url

\* a download that raises on every failure, whatever fatal is
request_webpage_raising(outcome, errnote, fatal) ==
    IF outcome = "ok" THEN [result |-> "handle", cause |-> None]
    ELSE [result |-> "ExtractorError", cause |-> Some(outcome)]

\* a download that gives False even when urlopen succeeds
request_webpage_failing(outcome, errnote, fatal) ==
    IF outcome # "ok" /\ errnote # "False" /\ fatal
    THEN [result |-> "ExtractorError", cause |-> Some(outcome)]
    ELSE [result |-> "False", cause |-> None]

\* _request_webpage: the handle, False, or the ExtractorError raised with its cause
request_webpage(outcome, errnote, fatal) ==
    IF outcome = "ok" THEN [result |-> "handle", cause |-> None]
    ELSE IF errnote = "False" THEN [result |-> "False", cause |-> None]
    ELSE IF fatal THEN [result |-> "ExtractorError", cause |-> Some(outcome)]
    ELSE [result |-> "False", cause |-> None]

\* whether _is_valid_url asks urlopen about this url at all
IsProbed(url) == proto_relative_url(url).scheme \in {"http", "https"}

\* _is_valid_url: "True", "False", or "raise" when the ExtractorError is re-raised
is_valid_url(url, outcome) ==
    IF ~IsProbed(url) THEN "True"
    ELSE LET r == request_webpage(outcome, "None", TRUE)
         IN  IF r.result # "ExtractorError" THEN "True"
             ELSE IF r.cause = Some("URLError") THEN "False"
             ELSE "raise"

\* the verdict on each descriptor of fs under the urlopen outcomes pr
Verdicts(fs, pr) == [i \in 1..Len(fs) |-> is_valid_url(fs[i]["url"][1], pr[i])]

RECURSIVE FilterValid(_, _)
FilterValid(fs, vs) ==
    IF fs = <<>> THEN <<>>
    ELSE IF vs[1] = "True" THEN <<fs[1]>> \o FilterValid(Tail(fs), Tail(vs))
         ELSE FilterValid(Tail(fs), Tail(vs))

(***************************************************************************)
(* The descriptors the selector is run on                                  *)
(***************************************************************************)
IdA == <<97>>
IdB == <<98>>
IdAB == <<97, 98>>
IdEmpty == <<>>

Pool ==
    { [url |-> Some(UrlA), format_id |-> Some(IdA)],
      [url |-> Some(UrlA), format_id |-> Some(IdB), preference |-> Some(0)],
      [url |-> Some(UrlB), format_id |-> Some(IdA), preference |-> Some(1),
       vcodec |-> Some("none")],
      [url |-> Some(UrlB), format_id |-> Some(IdAB), preference |-> None,
       acodec |-> Some("none")],
      [url |-> Some(UrlC), abr |-> Some(1), vbr |-> Some(2)],
      [url |-> Some(UrlC), tbr |-> None, abr |-> Some(1), vbr |-> Some(2),
       format_id |-> Some(IdEmpty)],
      [url |-> Some(UrlA), tbr |-> Some(3), format_id |-> None, ext |-> Some("f4f")],
      [url |-> Some(UrlD), format_id |-> Some(IdB), vcodec |-> Some("none"),
       quality |-> Some(1), language_preference |-> Some(0)],
      [url |-> Some(UrlA), format_id |-> Some(IdA), height |-> Some(1),
       width |-> Some(2), fps |-> Some(1)],
      [url |-> Some(UrlE), format_id |-> Some(IdAB), filesize |-> Some(1),
       filesize_approx |-> Some(2), source_preference |-> Some(0)] }

\* the descriptors _check_formats is run on: one of each kind of URL
CheckPool ==
    { f \in Pool : f \in { [url |-> Some(UrlA), format_id |-> Some(IdA)],
                           [url |-> Some(UrlC), abr |-> Some(1), vbr |-> Some(2)] }
                  \/ Get(f, "vcodec") = Some("none") }

\* the lists of 1..n descriptors of a pool
Lists(pool, n) == UNION { [1..k -> pool] : k \in 1..n }

(***************************************************************************)
(* The selector as a state machine                                         *)
(***************************************************************************)
\* no MPD is being parsed
MpdIdle ==
    /\ mpd_doc = None
    /\ mpd_id = None
    /\ mpd_pos = 0
    /\ mpd_formats = <<>>
    /\ mpd_ms_info = None
    /\ mpd_raised = None

\* no playlist is being walked
M3u8Idle ==
    /\ m3u8_doc = <<>>
    /\ m3u8_args = None
    /\ m3u8_pc = "idle"
    /\ m3u8_line = 0
    /\ m3u8_walk = None

\* no ISM document is being parsed
IsmIdle ==
    /\ ism_doc = None
    /\ ism_id = None
    /\ ism_pos = 0
    /\ ism_formats = <<>>
    /\ ism_raised = None

\* no f4m manifest is being resolved and no other entry point has been called
F4mIdle ==
    /\ f4m_web = <<>>
    /\ f4m_args = None
    /\ f4m_pc = "idle"
    /\ f4m_call = None
    /\ f4m_stack = <<>>
    /\ f4m_ret = <<>>
    /\ f4m_log = <<>>
    /\ ep = None

\* no page is being downloaded
DlIdle ==
    /\ dl_pc = "idle"
    /\ dl_args = None
    /\ try_count = 0
    /\ dl_res = None
    /\ dl_log = <<>>

\* no descriptor list is being selected from
SelIdle ==
    /\ formats = <<>>
    /\ formats_in = <<>>
    /\ op = "init"
    /\ raised = None
    /\ probes = <<>>
    /\ prefer_free_formats = FALSE

Init ==
    /\ DlIdle
    /\ MpdIdle
    /\ M3u8Idle
    /\ IsmIdle
    /\ F4mIdle
    /\ formats \in Lists(Pool, MaxFormats)
    /\ formats_in = formats
    /\ op = "init"
    /\ raised = None
    /\ probes = <<>>
    /\ prefer_free_formats \in BOOLEAN

\* _sort_formats(formats)
SortFormats ==
    /\ formats_in' = formats
    /\ op' = "sort"
    /\ probes' = <<>>
    /\ IF formats = <<>>
       THEN /\ raised' = Some("ExtractorError")
            /\ formats' = formats
       ELSE /\ raised' = None
            /\ formats' = SortedFormats(formats, prefer_free_formats)
    /\ UNCHANGED <<prefer_free_formats, mpdVars, m3u8Vars, ismVars, f4mVars, dlVars>>

\* _remove_duplicate_formats(formats)
RemoveDuplicateFormats ==
    /\ formats_in' = formats
    /\ op' = "dedup"
    /\ probes' = <<>>
    /\ raised' = None
    /\ formats' = UniqueFormats(formats)
    /\ UNCHANGED <<prefer_free_formats, mpdVars, m3u8Vars, ismVars, f4mVars, dlVars>>

\* _check_formats(formats, video_id): the filter is evaluated in full before the
\* slice is assigned, so an exception leaves the list as it was.  probes[i] is
\* "none" for a descriptor urlopen was not asked about.
CheckFormats ==
    /\ formats # <<>>
    /\ \E pr \in [1..Len(formats) -> UrlopenOutcomes \cup {"none"}] :
        LET vs == Verdicts(formats, pr)
            \* filter() stops at the first probe that raises
            stop == IF \E i \in 1..Len(vs) : vs[i] = "raise"
                    THEN CHOOSE i \in 1..Len(vs) :
                            vs[i] = "raise" /\ \A j \in 1..(i - 1) : vs[j] # "raise"
                    ELSE Len(vs)
        IN  /\ \A i \in 1..Len(vs) :
                 pr[i] = "none" <=> (i > stop \/ ~IsProbed(formats[i]["url"][1]))
            /\ probes' = pr
            /\ IF \E i \in 1..Len(vs) : vs[i] = "raise"
               THEN /\ raised' = Some("ExtractorError")
                    /\ formats' = formats
               ELSE /\ raised' = None
                    /\ formats' = FilterValid(formats, vs)
    /\ formats_in' = formats
    /\ op' = "check"
    /\ UNCHANGED <<prefer_free_formats, mpdVars, m3u8Vars, ismVars, f4mVars, dlVars>>

Next == SortFormats \/ RemoveDuplicateFormats

Spec == Init /\ [][Next]_vars

\* _check_formats on its own: the list it is given and the probes' outcomes
InitCheck ==
    /\ DlIdle
    /\ MpdIdle
    /\ M3u8Idle
    /\ IsmIdle
    /\ F4mIdle
    /\ formats \in Lists(CheckPool, MaxFormats)
    /\ formats_in = formats
    /\ op = "init"
    /\ raised = None
    /\ probes = <<>>
    /\ prefer_free_formats = FALSE

NextCheck == CheckFormats

SpecCheck == InitCheck /\ [][NextCheck]_vars

(***************************************************************************)
(* _parse_mpd_formats.  An XML attribute that is present carries its value  *)
(* (already read as a number where the code calls int() on it); an element  *)
(* is a record of the children and attributes the parser looks at.          *)
(* A URL template is a tuple of tokens: literal text, the placeholders      *)
(* $RepresentationID$, $Number$, $Time$, $Bandwidth$ (text is the %-format, *)
(* "d" when none is given) and the escape $$.  A duration in seconds        *)
(* (float_or_none(v, scale)) is kept exact as [num |-> v, den |-> scale].   *)
(***************************************************************************)
Lit(text) == [kind |-> "lit", text |-> text, value |-> 0]
Placeholder(kind) == [kind |-> kind, text |-> "d", value |-> 0]
Digits(fmt, n) == [kind |-> "num", text |-> fmt, value |-> n]

\* dict.get(k, default) on a dict of bare values
GetOr(d, k, default) == IF k \in DOMAIN d THEN d[k] ELSE default

\* dict.update
Update(f, g) == [k \in (DOMAIN f) \cup (DOMAIN g) |-> IF k \in DOMAIN g THEN g[k] ELSE f[k]]

\* utils.float_or_none(v, scale) for a v that is not None
float_or_none(v, scale) == Some([num |-> v, den |-> scale])

\* utils.urljoin(base, path) for a relative path
urljoin(base, path) == [base |-> base, rel |-> path]

RECURSIVE Concat(_)
Concat(ss) == IF ss = <<>> THEN <<>> ELSE ss[1] \o Concat(Tail(ss))

\* lines 1593-1597: total_number, the sum of 1 + r over the S elements
RECURSIVE TotalNumber(_)
TotalNumber(s_e) ==
    IF s_e = <<>> THEN 0
    ELSE 1 + GetOr(s_e[1], "r", 0) + TotalNumber(Tail(s_e))

\* whether source has a SegmentTimeline with S elements
HasTimeline(source) == source.SegmentTimeline # None /\ source.SegmentTimeline[1] # <<>>

\* line 1601: s.attrib['d'] on an S element without d
extract_common_raises(source) ==
    HasTimeline(source) /\ \E i \in 1..Len(source.SegmentTimeline[1]) :
                              "d" \notin DOMAIN source.SegmentTimeline[1][i]

\* lines 1588-1612
extract_common(ms_info, source) ==
    LET s_e == source.SegmentTimeline[1]
        a == IF HasTimeline(source)
             THEN SetKey(SetKey(ms_info, "total_number", TotalNumber(s_e)), "s",
                         [i \in 1..Len(s_e) |->
                            [t |-> GetOr(s_e[i], "t", 0),
                             d |-> s_e[i]["d"],
                             r |-> GetOr(s_e[i], "r", 0)]])
             ELSE ms_info
        b == IF source.startNumber # None
             THEN SetKey(a, "start_number", source.startNumber[1]) ELSE a
        c == IF source.timescale # None
             THEN SetKey(b, "timescale", source.timescale[1]) ELSE b
    IN  IF source.duration # None
        THEN SetKey(c, "segment_duration", source.duration[1]) ELSE c

\* lines 1614-1617
extract_Initialization(ms_info, source) ==
    IF source.Initialization # None
    THEN SetKey(ms_info, "initialization_url", source.Initialization[1])
    ELSE ms_info

extract_multisegment_info_raises(element) ==
    IF element.SegmentList # None THEN extract_common_raises(element.SegmentList[1])
    ELSE IF element.SegmentTemplate # None
         THEN extract_common_raises(element.SegmentTemplate[1])
         ELSE FALSE

\* lines 1582-1638
extract_multisegment_info(element, ms_parent_info) ==
    IF element.SegmentList # None
    THEN LET segment_list == element.SegmentList[1]
             a == extract_Initialization(extract_common(ms_parent_info, segment_list),
                                         segment_list)
         IN  IF segment_list.SegmentURL # <<>>
             THEN SetKey(a, "segment_urls", segment_list.SegmentURL) ELSE a
    ELSE IF element.SegmentTemplate # None
    THEN LET segment_template == element.SegmentTemplate[1]
             a == extract_common(ms_parent_info, segment_template)
             b == IF segment_template.media # None
                  THEN SetKey(a, "media_template", segment_template.media[1]) ELSE a
         IN  IF segment_template.initialization # None
             THEN SetKey(b, "initialization_url", segment_template.initialization[1])
             ELSE extract_Initialization(b, segment_template)
    ELSE ms_parent_info

\* lines 1697-1701: the template as the %-format string it is turned into.
\* The result of the last replace ('$$' to '$') is not assigned.
MediaTemplate(media_template, representation_id) ==
    [i \in 1..Len(media_template) |->
        IF media_template[i].kind = "RepresentationID" THEN Lit(representation_id)
        ELSE media_template[i]]

\* lines 1771-1772: $RepresentationID$ and $Bandwidth$ replaced in the
\* initialization url
InitializationUrl(initialization_url, representation_id, bandwidth) ==
    [i \in 1..Len(initialization_url) |->
        IF initialization_url[i].kind = "RepresentationID" THEN Lit(representation_id)
        ELSE IF initialization_url[i].kind = "Bandwidth" /\ initialization_url[i].text = "d"
             THEN Digits("d", bandwidth)
        ELSE initialization_url[i]]

\* '%(Number' in media_template
HasNumber(media_template) ==
    \E i \in 1..Len(media_template) : media_template[i].kind = "Number"

\* media_template % values: a KeyError when a conversion names a key values lacks
FormatRaises(media_template, values) ==
    \E i \in 1..Len(media_template) :
        /\ media_template[i].kind \in {"Number", "Time", "Bandwidth"}
        /\ media_template[i].kind \notin DOMAIN values

Format(media_template, values) ==
    [i \in 1..Len(media_template) |->
        IF media_template[i].kind \in {"Number", "Time", "Bandwidth"}
        THEN Digits(media_template[i].text, values[media_template[i].kind])
        ELSE IF media_template[i].kind = "$$" THEN Lit("$$")
        ELSE media_template[i]]

\* math.ceil(float(a) / (float(b) / c)) for positive a, b, c
CeilDiv(a, b, c) == (a * c + b - 1) \div b

\* the numbering started at 1 whatever startNumber says
RangeFromOne(start_number, total_number) ==
    [i \in 1..total_number |-> i]

\* lines 1716-1718: range(start_number, total_number + start_number)
Range(start_number, total_number) ==
    [i \in 1..total_number |-> start_number + i - 1]

\* lines 1705-1718: $Number$ template without a timeline
NumberFragments(ms_info, media_template, bandwidth, period_duration) ==
    LET total_number == CeilDiv(period_duration, ms_info["segment_duration"],
                                ms_info["timescale"])
        numbers == Range(ms_info["start_number"], total_number)
    IN  [i \in 1..Len(numbers) |->
            [url |-> Format(media_template,
                            [Number |-> numbers[i], Bandwidth |-> bandwidth]),
             duration |-> float_or_none(ms_info["segment_duration"],
                                        ms_info["timescale"])]]

\* lines 1728-1737: add_segment_url()
SegmentFragment(ms_info, media_template, bandwidth, segment_time, segment_d, segment_number) ==
    [url |-> Format(media_template,
                    [Time |-> segment_time, Bandwidth |-> bandwidth,
                     Number |-> segment_number]),
     duration |-> float_or_none(segment_d, ms_info["timescale"])]

\* lines 1744-1747: the repetitions of one S entry; the cursor after them
RECURSIVE RepeatLoop(_, _, _, _, _, _, _)
RepeatLoop(n, ms_info, media_template, bandwidth, segment_d, cursor, fragments) ==
    IF n <= 0 THEN [cursor |-> cursor, fragments |-> fragments]
    ELSE LET segment_time == cursor.segment_time + segment_d
         IN  RepeatLoop(n - 1, ms_info, media_template, bandwidth, segment_d,
                        [segment_time |-> segment_time,
                         segment_number |-> cursor.segment_number + 1],
                        Append(fragments,
                               SegmentFragment(ms_info, media_template, bandwidth,
                                               segment_time, segment_d,
                                               cursor.segment_number)))

\* line 1740: segment_time = s.get('t') or segment_time
EntryTime(s, segment_time) == IF s["t"] # 0 THEN s["t"] ELSE segment_time

\* the repetitions of an entry left out
NoRepeats(r) == 0

\* line 1744: range(s.get('r', 0))
Repeats(r) == r

\* lines 1739-1748
RECURSIVE TimelineLoop(_, _, _, _, _, _)
TimelineLoop(s, ms_info, media_template, bandwidth, cursor, fragments) ==
    IF s = <<>> THEN fragments
    ELSE LET segment_time == EntryTime(s[1], cursor.segment_time)
             segment_d == s[1]["d"]
             first == SegmentFragment(ms_info, media_template, bandwidth,
                                      segment_time, segment_d, cursor.segment_number)
             rep == RepeatLoop(Repeats(GetOr(s[1], "r", 0)), ms_info, media_template,
                               bandwidth, segment_d,
                               [segment_time |-> segment_time,
                                segment_number |-> cursor.segment_number + 1],
                               Append(fragments, first))
         IN  TimelineLoop(Tail(s), ms_info, media_template, bandwidth,
                          [segment_time |-> rep.cursor.segment_time + segment_d,
                           segment_number |-> rep.cursor.segment_number],
                          rep.fragments)

\* lines 1723-1748
TimelineFragments(ms_info, media_template, bandwidth) ==
    TimelineLoop(ms_info["s"], ms_info, media_template, bandwidth,
                 [segment_time |-> 0, segment_number |-> ms_info["start_number"]],
                 <<>>)

\* lines 1753-1762: s_num stays 0, so every url is paired with the first S entry
SegmentListFragments(ms_info) ==
    LET s == ms_info["s"][1]
    IN  Concat([u \in 1..Len(ms_info["segment_urls"]) |->
                  [r \in 1..(IF s["r"] + 1 > 0 THEN s["r"] + 1 ELSE 0) |->
                      [url |-> ms_info["segment_urls"][u],
                       duration |-> float_or_none(s["d"], ms_info["timescale"])]]])

\* lines 1695, 1705, 1749: which branch builds representation_ms_info['fragments']
FragmentsBranch(ms_info) ==
    IF "segment_urls" \notin DOMAIN ms_info /\ "media_template" \in DOMAIN ms_info
    THEN IF HasNumber(ms_info["media_template"]) /\ "s" \notin DOMAIN ms_info
         THEN "number" ELSE "timeline"
    ELSE IF "segment_urls" \in DOMAIN ms_info /\ "s" \in DOMAIN ms_info
         THEN "list" ELSE "none"

(***************************************************************************)
(* The walk over Period, AdaptationSet and Representation                   *)
(***************************************************************************)
\* the elements in the order the three nested loops reach them: <<p>> a Period,
\* <<p, a>> an AdaptationSet, <<p, a, r>> a Representation of an AdaptationSet
\* that is not skipped as protected
AdaptationSetSteps(doc, p, a) ==
    LET adaptation_set == doc.Period[p].AdaptationSet[a]
    IN  << <<p, a>> >> \o
        (IF adaptation_set.ContentProtection THEN <<>>
         ELSE [r \in 1..Len(adaptation_set.Representation) |-> <<p, a, r>>])

PeriodSteps(doc, p) ==
    << <<p>> >> \o
    Concat([a \in 1..Len(doc.Period[p].AdaptationSet) |-> AdaptationSetSteps(doc, p, a)])

Steps(doc) == Concat([p \in 1..Len(doc.Period) |-> PeriodSteps(doc, p)])

\* lines 1644-1647
PeriodMsInfo(doc, p) ==
    extract_multisegment_info(doc.Period[p], [start_number |-> 1, timescale |-> 1])

\* line 1651
AdaptationSetMsInfo(doc, p, a) ==
    extract_multisegment_info(doc.Period[p].AdaptationSet[a], PeriodMsInfo(doc, p))

\* line 1643: parse_duration(period.get('duration')) or mpd_duration
PeriodDuration(doc, p) ==
    IF doc.Period[p].duration # None /\ doc.Period[p].duration[1] # 0
    THEN doc.Period[p].duration
    ELSE doc.mediaPresentationDuration

\* lines 1664-1674: the BaseURL texts of Representation, AdaptationSet, Period and
\* MPD, innermost last, up to the first one that makes the url absolute
RECURSIVE BaseUrlFrom(_, _)
BaseUrlFrom(elements, base_url) ==
    IF elements = <<>> THEN base_url
    ELSE IF elements[1].BaseURL = None THEN BaseUrlFrom(Tail(elements), base_url)
    ELSE IF elements[1].BaseURL[1].absolute THEN <<elements[1].BaseURL[1].text>> \o base_url
    ELSE BaseUrlFrom(Tail(elements), <<elements[1].BaseURL[1].text>> \o base_url)

\* line 1680
FormatId(id, representation_id) ==
    IF id # None THEN <<id[1], representation_id>> ELSE <<representation_id>>

\* a merge that keeps of the existing descriptor only its fragments
MergeKeepingFragmentsOnly(fs, f, representation_id) ==
    IF \E i \in 1..Len(fs) : fs[i]["format_id"] = <<representation_id>>
    THEN LET i == CHOOSE i \in 1..Len(fs) :
                     /\ fs[i]["format_id"] = <<representation_id>>
                     /\ \A j \in 1..(i - 1) : fs[j]["format_id"] # <<representation_id>>
         IN  [fs EXCEPT ![i] = IF "fragments" \in DOMAIN fs[i]
                               THEN SetKey(f, "fragments", fs[i]["fragments"])
                               ELSE f]
    ELSE Append(fs, f)

\* lines 1779-1788: update the first format whose format_id is the
\* representation id, or append
MergeFormat(fs, f, representation_id) ==
    IF \E i \in 1..Len(fs) : fs[i]["format_id"] = <<representation_id>>
    THEN LET i == CHOOSE i \in 1..Len(fs) :
                     /\ fs[i]["format_id"] = <<representation_id>>
                     /\ \A j \in 1..(i - 1) : fs[j]["format_id"] # <<representation_id>>
         IN  [fs EXCEPT ![i] = Update(fs[i], f)]
    ELSE Append(fs, f)

\* the parse has a next element to visit
Walking ==
    /\ mpd_doc # None
    /\ mpd_raised = None
    /\ mpd_pos >= 1
    /\ mpd_pos <= Len(Steps(mpd_doc[1]))

Step == Steps(mpd_doc[1])[mpd_pos]

\* lines 1571-1572 and 1640-1641
ParseMpdStart ==
    /\ mpd_doc # None
    /\ mpd_pos = 0
    /\ mpd_pos' = IF mpd_doc[1].type = "dynamic" THEN Len(Steps(mpd_doc[1])) + 1 ELSE 1
    /\ UNCHANGED <<mpd_doc, mpd_id, mpd_formats, mpd_ms_info, mpd_raised, selVars,
                   m3u8Vars, ismVars, f4mVars, dlVars>>

\* lines 1642-1647
EnterPeriod ==
    /\ Walking
    /\ Len(Step) = 1
    /\ IF extract_multisegment_info_raises(mpd_doc[1].Period[Step[1]])
       THEN mpd_raised' = Some("KeyError") /\ mpd_pos' = mpd_pos
       ELSE mpd_raised' = None /\ mpd_pos' = mpd_pos + 1
    /\ UNCHANGED <<mpd_doc, mpd_id, mpd_formats, mpd_ms_info, selVars, m3u8Vars, ismVars, f4mVars,
                   dlVars>>

\* lines 1648-1651
EnterAdaptationSet ==
    /\ Walking
    /\ Len(Step) = 2
    /\ LET adaptation_set == mpd_doc[1].Period[Step[1]].AdaptationSet[Step[2]]
       IN  IF ~adaptation_set.ContentProtection
              /\ extract_multisegment_info_raises(adaptation_set)
           THEN mpd_raised' = Some("KeyError") /\ mpd_pos' = mpd_pos
           ELSE mpd_raised' = None /\ mpd_pos' = mpd_pos + 1
    /\ UNCHANGED <<mpd_doc, mpd_id, mpd_formats, mpd_ms_info, selVars, m3u8Vars, ismVars, f4mVars,
                   dlVars>>

\* lines 1652-1790: one Representation
ParseRepresentation ==
    /\ Walking
    /\ Len(Step) = 3
    /\ LET doc == mpd_doc[1]
           period == doc.Period[Step[1]]
           adaptation_set == period.AdaptationSet[Step[2]]
           representation == adaptation_set.Representation[Step[3]]
           representation_attrib == Update(adaptation_set.attrib, representation.attrib)
           content_type == representation_attrib["mimeType"][1]
           representation_id == representation_attrib["id"]
           bandwidth == representation_attrib["bandwidth"]
           base_url == BaseUrlFrom(<<representation, adaptation_set, period, doc>>, <<>>)
           period_duration == PeriodDuration(doc, Step[1])
           ms_info == extract_multisegment_info(
                          representation, AdaptationSetMsInfo(doc, Step[1], Step[2]))
           branch == FragmentsBranch(ms_info)
           media_template == MediaTemplate(ms_info["media_template"], representation_id)
           f0 == [format_id |-> FormatId(mpd_id, representation_id),
                  url |-> base_url,
                  tbr |-> bandwidth \div 1000,
                  format_note |-> content_type]
           raw == CASE branch = "number" ->
                         NumberFragments(ms_info, media_template, bandwidth,
                                         period_duration[1])
                    [] branch = "timeline" ->
                         TimelineFragments(ms_info, media_template, bandwidth)
                    [] branch = "list" -> SegmentListFragments(ms_info)
                    [] OTHER -> <<>>
           initialization == IF "initialization_url" \in DOMAIN ms_info
                             THEN << [url |-> InitializationUrl(
                                                 ms_info["initialization_url"],
                                                 representation_id, bandwidth)] >>
                             ELSE <<>>
           joined(frs) == [i \in 1..Len(frs) |->
                              [frs[i] EXCEPT !.url = urljoin(base_url, frs[i].url)]]
           f == IF branch = "none" THEN f0
                ELSE Update(f0, [fragments |-> joined(initialization) \o joined(raw),
                                 protocol |-> "http_dash_segments",
                                 url |-> IF base_url = <<>> /\ initialization # <<>>
                                         THEN initialization[1].url ELSE base_url])
       IN  IF representation.ContentProtection
           THEN /\ mpd_pos' = mpd_pos + 1
                /\ UNCHANGED <<mpd_formats, mpd_ms_info, mpd_raised>>
           ELSE IF "mimeType" \notin DOMAIN representation_attrib
           THEN /\ mpd_raised' = Some("KeyError")
                /\ UNCHANGED <<mpd_pos, mpd_formats, mpd_ms_info>>
           ELSE IF content_type \notin {"video", "audio"}
           THEN /\ mpd_pos' = mpd_pos + 1
                /\ UNCHANGED <<mpd_formats, mpd_ms_info, mpd_raised>>
           ELSE IF extract_multisegment_info_raises(representation)
           THEN /\ mpd_raised' = Some("KeyError")
                /\ UNCHANGED <<mpd_pos, mpd_formats, mpd_ms_info>>
           ELSE IF \/ branch = "number" /\ "segment_duration" \notin DOMAIN ms_info
                   \/ branch = "timeline" /\ "s" \notin DOMAIN ms_info
                   \/ branch = "number"
                      /\ FormatRaises(media_template, [Number |-> 0, Bandwidth |-> 0])
           THEN /\ mpd_raised' = Some("KeyError")
                /\ UNCHANGED <<mpd_pos, mpd_formats, mpd_ms_info>>
           ELSE IF branch = "number" /\ period_duration = None
           THEN /\ mpd_raised' = Some("TypeError")
                /\ UNCHANGED <<mpd_pos, mpd_formats, mpd_ms_info>>
           ELSE /\ mpd_pos' = mpd_pos + 1
                /\ mpd_raised' = None
                /\ mpd_ms_info' = Some(IF branch = "none" THEN ms_info
                                       ELSE SetKey(ms_info, "fragments", joined(raw)))
                /\ mpd_formats' = MergeFormat(mpd_formats, f, representation_id)
    /\ UNCHANGED <<mpd_doc, mpd_id, selVars, m3u8Vars, ismVars, f4mVars, dlVars>>

(***************************************************************************)
(* The MPD documents parsed: one Period with one AdaptationSet and one     *)
(* Representation whose SegmentTemplate is drawn from the sets below       *)
(***************************************************************************)
NoSegments == [SegmentList |-> None, SegmentTemplate |-> None]

\* the S elements: t absent, 0 or 7; d 3 or 10; r absent or 2
SElements ==
    { Update(Update(t, [d |-> d]), r) :
        t \in {<<>>, [t |-> 0], [t |-> 7]}, d \in {3, 10}, r \in {<<>>, [r |-> 2]} }

Timelines(n) == UNION { [1..k -> SElements] : k \in 1..n }

NumberTemplate == <<Lit("seg-"), Placeholder("Number"), Lit(".m4s")>>
TimeTemplate == <<Placeholder("RepresentationID"), Lit("/"), Placeholder("Time")>>

\* SegmentTemplate elements with a SegmentTimeline
TimelineTemplates ==
    { [SegmentTimeline |-> Some(tl), startNumber |-> sn, timescale |-> ts,
       duration |-> None, media |-> Some(m), initialization |-> None,
       Initialization |-> None] :
        tl \in Timelines(MaxTimeline), sn \in {None, Some(5)}, ts \in {None, Some(2)},
        m \in {NumberTemplate, TimeTemplate} }

\* SegmentTemplate elements with a fixed segment duration
DurationTemplates ==
    { [SegmentTimeline |-> None, startNumber |-> sn, timescale |-> ts,
       duration |-> Some(d), media |-> Some(NumberTemplate), initialization |-> i,
       Initialization |-> None] :
        sn \in {None, Some(1), Some(5)}, ts \in {None, Some(2)}, d \in {5, 3},
        i \in {None, Some(<<Lit("init.mp4")>>)} }

MpdOf(period_duration, segment_template) ==
    [type |-> "static", mediaPresentationDuration |-> None, BaseURL |-> None,
     Period |-> <<
        [duration |-> Some(period_duration), BaseURL |-> None,
         SegmentList |-> None, SegmentTemplate |-> None,
         AdaptationSet |-> <<
            [attrib |-> [mimeType |-> <<"video", "mp4">>], ContentProtection |-> FALSE,
             BaseURL |-> None, SegmentList |-> None, SegmentTemplate |-> None,
             Representation |-> <<
                [attrib |-> [id |-> "v1", bandwidth |-> 500000],
                 ContentProtection |-> FALSE,
                 BaseURL |-> Some([absolute |-> TRUE, text |-> "http://h/"]),
                 SegmentList |-> None,
                 SegmentTemplate |-> Some(segment_template)] >>] >>] >>]

MpdDocs ==
    { MpdOf(pd, st) : pd \in {12}, st \in TimelineTemplates } \cup
    { MpdOf(pd, st) : pd \in {7, 10, 12}, st \in DurationTemplates }

InitMpd ==
    /\ DlIdle
    /\ SelIdle
    /\ M3u8Idle
    /\ IsmIdle
    /\ F4mIdle
    /\ mpd_doc \in { Some(d) : d \in MpdDocs }
    /\ mpd_id \in {None, Some("dash")}
    /\ mpd_id = None \/ mpd_doc[1].Period[1].duration # Some(12)
    /\ mpd_pos = 0
    /\ mpd_formats = <<>>
    /\ mpd_ms_info = None
    /\ mpd_raised = None

NextMpd == ParseMpdStart \/ EnterPeriod \/ EnterAdaptationSet \/ ParseRepresentation

SpecMpd == InitMpd /\ [][NextMpd]_vars

(***************************************************************************)
(* MPD documents with several Representations: a first Period whose        *)
(* AdaptationSet has up to MaxRepresentations Representations, and at most *)
(* one more Period with a single Representation                            *)
(***************************************************************************)
SegmentTemplateOf(timeline, media) ==
    [SegmentTimeline |-> timeline, startNumber |-> None, timescale |-> None,
     duration |-> None, media |-> Some(media), initialization |-> None,
     Initialization |-> None]

RepresentationOf(id, attrib, protected, sub_protected, segment_template) ==
    [attrib |-> Update([id |-> id, bandwidth |-> 500000], attrib),
     ContentProtection |-> protected,
     SubRepresentation |-> << [ContentProtection |-> sub_protected] >>,
     BaseURL |-> Some([absolute |-> TRUE, text |-> "http://h/"]),
     SegmentList |-> None,
     SegmentTemplate |-> segment_template]

\* a Representation with a one-entry SegmentTimeline
RepFragments(id) ==
    RepresentationOf(id, <<>>, FALSE, FALSE,
                     Some(SegmentTemplateOf(Some(<< [d |-> 3] >>), TimeTemplate)))

\* a Representation that is a single file, with a mimeType of its own
RepPlain(id) ==
    RepresentationOf(id, [mimeType |-> <<"audio", "mp4">>], FALSE, FALSE, None)

\* a Representation with a ContentProtection child
RepProtected ==
    RepresentationOf("v4", <<>>, TRUE, FALSE,
                     Some(SegmentTemplateOf(Some(<< [d |-> 3] >>), TimeTemplate)))

\* a Representation with a ContentProtection element inside its SubRepresentation
RepSubProtected ==
    RepresentationOf("v3", <<>>, FALSE, TRUE,
                     Some(SegmentTemplateOf(Some(<< [d |-> 3] >>), TimeTemplate)))

\* a Representation whose S element has no d
RepNoD ==
    RepresentationOf("v2", <<>>, FALSE, FALSE,
                     Some(SegmentTemplateOf(Some(<< [t |-> 0] >>), TimeTemplate)))

\* a Representation whose $Number$ template comes without a segment duration
RepNoDuration ==
    RepresentationOf("v2", <<>>, FALSE, FALSE,
                     Some(SegmentTemplateOf(None, NumberTemplate)))

RepresentationPool ==
    { RepFragments("v1"), RepPlain("v1"), RepFragments("v2"), RepProtected,
      RepSubProtected, RepNoD, RepNoDuration }

AdaptationSetOf(attrib, protected, representations) ==
    [attrib |-> attrib, ContentProtection |-> protected, BaseURL |-> None,
     SegmentList |-> None, SegmentTemplate |-> None,
     Representation |-> representations]

\* with a mimeType, with a mimeType and a ContentProtection child, without mimeType
AdaptationSets(n) ==
    { AdaptationSetOf(v[1], v[2], rs) :
        v \in { << [mimeType |-> <<"video", "mp4">>], FALSE >>,
                << [mimeType |-> <<"video", "mp4">>], TRUE >>,
                << <<>>, FALSE >> },
        rs \in Lists(RepresentationPool, n) }

PeriodOf(adaptation_set) ==
    [duration |-> Some(12), BaseURL |-> None, SegmentList |-> None,
     SegmentTemplate |-> None, AdaptationSet |-> << adaptation_set >>]

WalkDocs ==
    { [type |-> "static", mediaPresentationDuration |-> None, BaseURL |-> None,
       Period |-> << PeriodOf(a) >> \o more] :
        a \in AdaptationSets(MaxRepresentations),
        more \in { <<>> } \cup
                 { << PeriodOf(AdaptationSetOf([mimeType |-> <<"video", "mp4">>],
                                               FALSE, << r >>)) >> :
                     r \in { RepFragments("v1"), RepPlain("v1"), RepNoD } } }

InitMpdWalk ==
    /\ DlIdle
    /\ SelIdle
    /\ M3u8Idle
    /\ IsmIdle
    /\ F4mIdle
    /\ mpd_doc \in { Some(d) : d \in WalkDocs }
    /\ mpd_id \in {None, Some("dash")}
    /\ mpd_pos = 0
    /\ mpd_formats = <<>>
    /\ mpd_ms_info = None
    /\ mpd_raised = None

SpecMpdWalk == InitMpdWalk /\ [][NextMpd]_vars

(***************************************************************************)
(* MPD documents with an explicit SegmentList, in the Representation or    *)
(* inherited from its AdaptationSet, and documents whose media template    *)
(* has the escape $$ and a %-format                                        *)
(***************************************************************************)
Escape == [kind |-> "$$", text |-> "", value |-> 0]

\* the media attribute of the k-th SegmentURL
SegmentUrl(k) == <<Lit("s"), Digits("d", k)>>

SegmentUrls(n) == [k \in 1..n |-> SegmentUrl(k)]

SegmentListOf(timeline, timescale, initialization, n) ==
    [SegmentTimeline |-> timeline, startNumber |-> None, timescale |-> timescale,
     duration |-> None, Initialization |-> initialization, SegmentURL |-> SegmentUrls(n)]

\* the timelines of a SegmentList: S elements with d 3 or 10, r absent or 2
ListTimelines(n) ==
    Lists({ e \in SElements : "t" \notin DOMAIN e }, n)

SegmentLists ==
    { SegmentListOf(tl, ts, i, n) :
        tl \in {None} \cup { Some(t) : t \in ListTimelines(MaxTimeline) },
        ts \in {None, Some(2)},
        i \in {None, Some(<<Lit("init.mp4")>>)},
        n \in 1..MaxSegmentUrls }

\* a template with a fixed segment duration, as an AdaptationSet hands it down
InheritedTemplate ==
    [SegmentTemplateOf(None, NumberTemplate) EXCEPT !.duration = Some(5)]

EscapedNumberTemplate ==
    <<Lit("a"), Escape, Lit("b"), Placeholder("RepresentationID"), Lit("-"),
      Placeholder("Bandwidth"), Lit("-"), [Placeholder("Number") EXCEPT !.text = "05d"]>>

EscapedTimeTemplate ==
    <<Placeholder("RepresentationID"), Lit("/"), Escape, Lit("/"), Placeholder("Time"),
      Lit("-"), Placeholder("Number")>>

EscapedTemplates ==
    { [SegmentTemplateOf(None, EscapedNumberTemplate) EXCEPT !.duration = Some(d),
                                                            !.startNumber = sn] :
        d \in {3, 5}, sn \in {None, Some(5)} }
    \cup
    { [SegmentTemplateOf(Some(tl), m) EXCEPT !.startNumber = sn] :
        tl \in { << [d |-> 3, r |-> 2] >>, << [t |-> 7, d |-> 3], [d |-> 10] >> },
        m \in {EscapedTimeTemplate, EscapedNumberTemplate},
        sn \in {None, Some(5)} }

\* the SegmentList in the Representation, under an AdaptationSet with or without
\* a SegmentTemplate
ListInRepresentation ==
    { [AdaptationSetOf([mimeType |-> <<"video", "mp4">>], FALSE,
                       << [RepresentationOf("v1", <<>>, FALSE, FALSE, None)
                             EXCEPT !.SegmentList = Some(sl)] >>)
         EXCEPT !.SegmentTemplate = inherited] :
        sl \in SegmentLists, inherited \in {None, Some(InheritedTemplate)} }

\* the SegmentList in the AdaptationSet, the Representation with or without a
\* SegmentTemplate of its own
ListInAdaptationSet ==
    { [AdaptationSetOf([mimeType |-> <<"video", "mp4">>], FALSE,
                       << RepresentationOf("v1", <<>>, FALSE, FALSE, own) >>)
         EXCEPT !.SegmentList = Some(sl)] :
        sl \in { SegmentListOf(tl, None, None, 2) :
                   tl \in {None, Some(<< [d |-> 3, r |-> 1] >>)} },
        own \in {None, Some(SegmentTemplateOf(None, TimeTemplate))} }

EscapedInRepresentation ==
    { AdaptationSetOf([mimeType |-> <<"video", "mp4">>], FALSE,
                      << RepresentationOf("v1", <<>>, FALSE, FALSE, Some(st)) >>) :
        st \in EscapedTemplates }

ListDocs ==
    { [type |-> "static", mediaPresentationDuration |-> None, BaseURL |-> None,
       Period |-> << PeriodOf(a) >>] :
        a \in ListInRepresentation \cup ListInAdaptationSet \cup EscapedInRepresentation }

InitMpdList ==
    /\ DlIdle
    /\ SelIdle
    /\ M3u8Idle
    /\ IsmIdle
    /\ F4mIdle
    /\ mpd_doc \in { Some(d) : d \in ListDocs }
    /\ mpd_id \in {None, Some("dash")}
    /\ mpd_pos = 0
    /\ mpd_formats = <<>>
    /\ mpd_ms_info = None
    /\ mpd_raised = None

SpecMpdList == InitMpdList /\ [][NextMpd]_vars

(***************************************************************************)
(* _extract_m3u8_formats.  A playlist is the tuple of its lines; a tag line *)
(* carries the attributes parse_m3u8_attributes reads from it (GROUP-ID,    *)
(* AVERAGE-BANDWIDTH and FRAME-RATE are written GROUP_ID, AVERAGE_BANDWIDTH *)
(* and FRAME_RATE), numbers already read as numbers.  A format_id is the    *)
(* tuple of the parts that '-'.join() puts together.                        *)
(***************************************************************************)
\* urlh.geturl()
M3u8Url == "http://h/master.m3u8"

\* lines 1203-1206
format_url(u) == IF u.absolute THEN urljoin("", u) ELSE urljoin(M3u8Url, u)

\* utils.int_or_none(v, scale=1000) for a v that is not None
int_or_none_scaled(v) == Some(v \div 1000)

\* the preference passed on as it is
MetaPreferenceUnchanged(preference) == preference

\* line 1181: preference - 100 if preference else -100
MetaPreference(preference) ==
    IF preference # None /\ preference[1] # 0 THEN Some(preference[1] - 100) ELSE Some(-100)

\* lines 1175-1184
m3u8_meta_format(args) ==
    [format_id |-> Some((IF TruthyStr(args.m3u8_id) THEN <<Lit(args.m3u8_id[1])>> ELSE <<>>)
                        \o <<Lit("meta")>>),
     url |-> Some(urljoin("", M3u8Url)),
     ext |-> args.ext,
     protocol |-> Some("m3u8"),
     preference |-> MetaPreference(args.preference),
     resolution |-> Some("multiple"),
     format_note |-> Some("Quality selection URL")]

\* lines 1222-1228: the descriptor returned for a media playlist
m3u8_media_playlist_format(args) ==
    [url |-> Some(urljoin("", M3u8Url)),
     format_id |-> IF args.m3u8_id = None THEN None ELSE Some(<<Lit(args.m3u8_id[1])>>),
     ext |-> args.ext,
     protocol |-> Some(args.entry_protocol),
     preference |-> args.preference]

\* '#EXT-X-TARGETDURATION' in m3u8_doc
IsMediaPlaylist(doc) == \E i \in 1..Len(doc) : doc[i].kind = "TARGETDURATION"

\* an attribute that is there and not the empty string
Has(attrs, k) == k \in DOMAIN attrs

\* lines 1233-1234
StreamInfStep(w, line) == [w EXCEPT !.last_info = line.attrs]

\* every #EXT-X-MEDIA AUDIO tag with a URI records its group as demuxed, one
\* recorded as muxed before too
MediaStepResetting(w, line, args) ==
    LET media == line.attrs
        group_id == GetOr(media, "GROUP_ID", "")
        audio == Has(media, "TYPE") /\ media["TYPE"] = "AUDIO"
        f0 == [format_id |-> Some((IF group_id # "" THEN <<Lit(group_id)>> ELSE <<>>)
                                  \o (IF Has(media, "NAME") THEN <<Lit(media["NAME"])>>
                                      ELSE <<>>)),
               url |-> IF Has(media, "URI") THEN Some(format_url(media["URI"])) ELSE None,
               language |-> IF Has(media, "LANGUAGE") THEN Some(media["LANGUAGE"])
                            ELSE None,
               ext |-> args.ext,
               protocol |-> Some(args.entry_protocol),
               preference |-> args.preference]
        f == IF audio THEN SetKey(f0, "vcodec", Some("none")) ELSE f0
    IN  IF ~(Has(media, "TYPE") /\ media["TYPE"] \in {"VIDEO", "AUDIO"}) THEN w
        ELSE IF Has(media, "URI")
        THEN [w EXCEPT
                !.formats = Append(w.formats, f),
                !.audio_in_video_stream =
                    IF audio /\ group_id # ""
                    THEN SetKey(w.audio_in_video_stream, group_id, FALSE)
                    ELSE w.audio_in_video_stream]
        ELSE [w EXCEPT
                !.last_media = media,
                !.audio_in_video_stream =
                    IF audio /\ group_id # ""
                    THEN SetKey(w.audio_in_video_stream, group_id, TRUE)
                    ELSE w.audio_in_video_stream]

\* lines 1235-1264
MediaStep(w, line, args) ==
    LET media == line.attrs
        group_id == GetOr(media, "GROUP_ID", "")
        audio == Has(media, "TYPE") /\ media["TYPE"] = "AUDIO"
        f0 == [format_id |-> Some((IF group_id # "" THEN <<Lit(group_id)>> ELSE <<>>)
                                  \o (IF Has(media, "NAME") THEN <<Lit(media["NAME"])>>
                                      ELSE <<>>)),
               url |-> IF Has(media, "URI") THEN Some(format_url(media["URI"])) ELSE None,
               language |-> IF Has(media, "LANGUAGE") THEN Some(media["LANGUAGE"])
                            ELSE None,
               ext |-> args.ext,
               protocol |-> Some(args.entry_protocol),
               preference |-> args.preference]
        f == IF audio THEN SetKey(f0, "vcodec", Some("none")) ELSE f0
    IN  IF ~(Has(media, "TYPE") /\ media["TYPE"] \in {"VIDEO", "AUDIO"}) THEN w
        ELSE IF Has(media, "URI")
        THEN [w EXCEPT
                !.formats = Append(w.formats, f),
                !.audio_in_video_stream =
                    IF audio /\ group_id # ""
                       /\ ~GetOr(w.audio_in_video_stream, group_id, FALSE)
                    THEN SetKey(w.audio_in_video_stream, group_id, FALSE)
                    ELSE w.audio_in_video_stream]
        ELSE [w EXCEPT
                !.last_media = media,
                !.audio_in_video_stream =
                    IF audio /\ group_id # ""
                    THEN SetKey(w.audio_in_video_stream, group_id, TRUE)
                    ELSE w.audio_in_video_stream]

\* BANDWIDTH alone, AVERAGE-BANDWIDTH not looked at
StreamBandwidthOnly(last_info) ==
    IF Has(last_info, "BANDWIDTH") THEN int_or_none_scaled(last_info["BANDWIDTH"])
    ELSE None

\* line 1268: tbr from AVERAGE-BANDWIDTH or else BANDWIDTH
StreamTbr(last_info) ==
    IF Has(last_info, "AVERAGE_BANDWIDTH")
    THEN int_or_none_scaled(last_info["AVERAGE_BANDWIDTH"])
    ELSE IF Has(last_info, "BANDWIDTH") THEN int_or_none_scaled(last_info["BANDWIDTH"])
    ELSE None

\* the name or bitrate appended for a live stream too
StreamFormatIdAlways(w, args) ==
    LET tbr == StreamTbr(w.last_info)
    IN  (IF TruthyStr(args.m3u8_id) THEN <<Lit(args.m3u8_id[1])>> ELSE <<>>)
        \o << IF Has(w.last_info, "NAME") THEN Lit(w.last_info["NAME"])
              ELSE IF Has(w.last_media, "NAME") THEN Lit(w.last_media["NAME"])
              ELSE IF tbr # None /\ tbr[1] # 0 THEN Digits("d", tbr[1])
              ELSE Digits("d", Len(w.formats)) >>

\* lines 1269-1279
StreamFormatId(w, args) ==
    LET tbr == StreamTbr(w.last_info)
    IN  (IF TruthyStr(args.m3u8_id) THEN <<Lit(args.m3u8_id[1])>> ELSE <<>>)
        \o (IF args.live THEN <<>>
            ELSE << IF Has(w.last_info, "NAME") THEN Lit(w.last_info["NAME"])
                    ELSE IF Has(w.last_media, "NAME") THEN Lit(w.last_media["NAME"])
                    ELSE IF tbr # None /\ tbr[1] # 0 THEN Digits("d", tbr[1])
                    ELSE Digits("d", Len(w.formats)) >>)

\* last_info and last_media left as they are after the stream URI line
UriStepKeeping(w, line, args) ==
    LET last_info == w.last_info
        manifest_url == format_url(line.uri)
        f0 == [format_id |-> Some(StreamFormatId(w, args)),
               url |-> Some(manifest_url),
               manifest_url |-> Some(manifest_url),
               tbr |-> StreamTbr(last_info),
               ext |-> args.ext,
               fps |-> IF Has(last_info, "FRAME_RATE")
                       THEN float_or_none(last_info["FRAME_RATE"], 1) ELSE None,
               protocol |-> Some(args.entry_protocol),
               preference |-> args.preference]
        f1 == IF Has(last_info, "RESOLUTION")
              THEN Update(f0, [width |-> Some(last_info["RESOLUTION"][1]),
                               height |-> Some(last_info["RESOLUTION"][2])])
              ELSE f0
        \* Unified Streaming Platform: the bitrates the url itself names
        f2 == IF line.uri.usp # None
              THEN Update(f1, [vbr |-> float_or_none(line.uri.usp[1].video, 1000),
                               abr |-> float_or_none(line.uri.usp[1].audio, 1000)])
              ELSE f1
        \* parse_codecs(last_info.get('CODECS'))
        f3 == IF Has(last_info, "CODECS") THEN Update(f2, last_info["CODECS"]) ELSE f2
        f == IF /\ Has(last_info, "AUDIO")
                /\ Has(w.audio_in_video_stream, last_info["AUDIO"])
                /\ ~w.audio_in_video_stream[last_info["AUDIO"]]
             THEN SetKey(f3, "acodec", Some("none")) ELSE f3
    IN  [w EXCEPT !.formats = Append(w.formats, f)]

\* lines 1267-1313
UriStep(w, line, args) ==
    LET last_info == w.last_info
        manifest_url == format_url(line.uri)
        f0 == [format_id |-> Some(StreamFormatId(w, args)),
               url |-> Some(manifest_url),
               manifest_url |-> Some(manifest_url),
               tbr |-> StreamTbr(last_info),
               ext |-> args.ext,
               fps |-> IF Has(last_info, "FRAME_RATE")
                       THEN float_or_none(last_info["FRAME_RATE"], 1) ELSE None,
               protocol |-> Some(args.entry_protocol),
               preference |-> args.preference]
        f1 == IF Has(last_info, "RESOLUTION")
              THEN Update(f0, [width |-> Some(last_info["RESOLUTION"][1]),
                               height |-> Some(last_info["RESOLUTION"][2])])
              ELSE f0
        \* Unified Streaming Platform: the bitrates the url itself names
        f2 == IF line.uri.usp # None
              THEN Update(f1, [vbr |-> float_or_none(line.uri.usp[1].video, 1000),
                               abr |-> float_or_none(line.uri.usp[1].audio, 1000)])
              ELSE f1
        \* parse_codecs(last_info.get('CODECS'))
        f3 == IF Has(last_info, "CODECS") THEN Update(f2, last_info["CODECS"]) ELSE f2
        f == IF /\ Has(last_info, "AUDIO")
                /\ Has(w.audio_in_video_stream, last_info["AUDIO"])
                /\ ~w.audio_in_video_stream[last_info["AUDIO"]]
             THEN SetKey(f3, "acodec", Some("none")) ELSE f3
    IN  [w EXCEPT !.formats = Append(w.formats, f),
                  !.last_info = <<>>,
                  !.last_media = <<>>]

\* one turn of the loop of line 1232
LineStep(w, line, args) ==
    CASE line.kind = "STREAM-INF" -> StreamInfStep(w, line)
      [] line.kind = "MEDIA" -> MediaStep(w, line, args)
      [] line.kind = "uri" -> UriStep(w, line, args)
      [] OTHER -> w

\* lines 1201 and 1229-1231
WalkStart(args) ==
    [formats |-> <<m3u8_meta_format(args)>>, last_info |-> <<>>, last_media |-> <<>>,
     audio_in_video_stream |-> <<>>]

RECURSIVE WalkFrom(_, _, _)
WalkFrom(w, lines, args) ==
    IF lines = <<>> THEN w ELSE WalkFrom(LineStep(w, lines[1], args), Tail(lines), args)

\* what _extract_m3u8_formats returns for a playlist it could download
M3u8Formats(doc, args) ==
    IF IsMediaPlaylist(doc) THEN <<m3u8_media_playlist_format(args)>>
    ELSE WalkFrom(WalkStart(args), doc, args).formats

\* lines 1191-1231: the download, the meta descriptor, the media playlist test
ExtractM3u8Start ==
    /\ m3u8_pc = "start"
    /\ \E outcome \in UrlopenOutcomes, fatal \in BOOLEAN :
         LET res == request_webpage(outcome, "Failed to download m3u8 information", fatal)
         IN  IF res.result = "ExtractorError"
             THEN /\ m3u8_pc' = "raised"
                  /\ m3u8_walk' = None
             ELSE IF res.result = "False"
             THEN /\ m3u8_pc' = "done"
                  /\ m3u8_walk' = Some([WalkStart(m3u8_args[1]) EXCEPT !.formats = <<>>])
             ELSE IF IsMediaPlaylist(m3u8_doc)
             THEN /\ m3u8_pc' = "done"
                  /\ m3u8_walk' = Some([WalkStart(m3u8_args[1]) EXCEPT
                                           !.formats = M3u8Formats(m3u8_doc, m3u8_args[1])])
             ELSE /\ m3u8_pc' = IF m3u8_doc = <<>> THEN "done" ELSE "walk"
                  /\ m3u8_walk' = Some(WalkStart(m3u8_args[1]))
    /\ UNCHANGED <<m3u8_doc, m3u8_args, m3u8_line, selVars, mpdVars, ismVars, f4mVars, dlVars>>

\* the walk is at a line of the given kinds
AtLine(kinds) ==
    /\ m3u8_pc = "walk"
    /\ m3u8_line < Len(m3u8_doc)
    /\ m3u8_doc[m3u8_line + 1].kind \in kinds

\* the line has been handled; after the last one the formats are returned
Advance ==
    /\ m3u8_line' = m3u8_line + 1
    /\ m3u8_pc' = IF m3u8_line + 1 = Len(m3u8_doc) THEN "done" ELSE "walk"
    /\ UNCHANGED <<m3u8_doc, m3u8_args, selVars, mpdVars, ismVars, f4mVars, dlVars>>

StreamInfLine ==
    /\ AtLine({"STREAM-INF"})
    /\ m3u8_walk' = Some(StreamInfStep(m3u8_walk[1], m3u8_doc[m3u8_line + 1]))
    /\ Advance

MediaLine ==
    /\ AtLine({"MEDIA"})
    /\ m3u8_walk' = Some(MediaStep(m3u8_walk[1], m3u8_doc[m3u8_line + 1], m3u8_args[1]))
    /\ Advance

\* lines 1265-1266: another tag, a comment or a blank line
CommentLine ==
    /\ AtLine({"comment", "TARGETDURATION"})
    /\ m3u8_walk' = m3u8_walk
    /\ Advance

UriLine ==
    /\ AtLine({"uri"})
    /\ m3u8_walk' = Some(UriStep(m3u8_walk[1], m3u8_doc[m3u8_line + 1], m3u8_args[1]))
    /\ Advance

(***************************************************************************)
(* The playlists walked: up to MaxEntries of the groups of lines below     *)
(***************************************************************************)
StreamInf(attrs) == [kind |-> "STREAM-INF", attrs |-> attrs, uri |-> None]
Media(attrs) == [kind |-> "MEDIA", attrs |-> attrs, uri |-> None]
Comment == [kind |-> "comment", attrs |-> <<>>, uri |-> None]
TargetDuration == [kind |-> "TARGETDURATION", attrs |-> <<>>, uri |-> None]
Uri(path) == [kind |-> "uri", attrs |-> <<>>,
              uri |-> [absolute |-> FALSE, path |-> path, usp |-> None]]
UspUri == [kind |-> "uri", attrs |-> <<>>,
           uri |-> [absolute |-> TRUE, path |-> "v.ism/audio=128000-video=500000.m3u8",
                    usp |-> Some([audio |-> 128000, video |-> 500000])]]

Entries ==
    { << StreamInf([BANDWIDTH |-> 500000]), Uri("lo.m3u8") >>,
      << StreamInf([BANDWIDTH |-> 1500000]), Uri("hi.m3u8") >>,
      << StreamInf([BANDWIDTH |-> 500000, AVERAGE_BANDWIDTH |-> 400000]), Comment,
         Uri("lo.m3u8") >>,
      << StreamInf([BANDWIDTH |-> 1500000, NAME |-> "hd", AUDIO |-> "aud",
                    FRAME_RATE |-> 25]), Uri("hi.m3u8") >>,
      << Uri("lo.m3u8") >>,
      << Media([TYPE |-> "AUDIO", GROUP_ID |-> "aud", NAME |-> "en", LANGUAGE |-> "en",
                URI |-> [absolute |-> FALSE, path |-> "en.m3u8", usp |-> None]]) >>,
      << Media([TYPE |-> "AUDIO", GROUP_ID |-> "aud", NAME |-> "mux"]),
         StreamInf([BANDWIDTH |-> 500000, AUDIO |-> "aud", RESOLUTION |-> <<640, 360>>,
                    CODECS |-> [vcodec |-> Some("avc1.4d401e"),
                                acodec |-> Some("mp4a.40.2")]]),
         Uri("lo.m3u8") >>,
      << Media([TYPE |-> "SUBTITLES", GROUP_ID |-> "sub", NAME |-> "en",
                URI |-> [absolute |-> FALSE, path |-> "sub.m3u8", usp |-> None]]) >>,
      << StreamInf([BANDWIDTH |-> 500]), UspUri >>,
      << TargetDuration, Comment, Uri("seg1.ts") >> }

Playlists(n) == UNION { { Concat(es) : es \in [1..k -> Entries] } : k \in 1..n }

InitM3u8 ==
    /\ DlIdle
    /\ SelIdle
    /\ MpdIdle
    /\ IsmIdle
    /\ F4mIdle
    /\ m3u8_doc \in Playlists(MaxEntries)
    /\ m3u8_args \in { Some([ext |-> Some("mp4"), entry_protocol |-> "m3u8_native",
                             preference |-> pr, m3u8_id |-> id, live |-> lv]) :
                         pr \in {None, Some(0), Some(5)}, id \in {None, Some("hls")},
                         lv \in BOOLEAN }
    /\ m3u8_pc = "start"
    /\ m3u8_line = 0
    /\ m3u8_walk = None

NextM3u8 == ExtractM3u8Start \/ StreamInfLine \/ MediaLine \/ CommentLine \/ UriLine

SpecM3u8 == InitM3u8 /\ [][NextM3u8]_vars


(***************************************************************************)
(* Master playlists as free sequences of lines, for the state the walk      *)
(* carries from one line to the next: #EXT-X-MEDIA AUDIO tags of one group  *)
(* with and without a URI, #EXT-X-STREAM-INF tags that name the group or    *)
(* not, comment lines and stream URI lines, in every order.                 *)
(***************************************************************************)
MediaUriAud ==
    Media([TYPE |-> "AUDIO", GROUP_ID |-> "aud", NAME |-> "en",
           URI |-> [absolute |-> FALSE, path |-> "en.m3u8", usp |-> None]])

MediaMuxAud == Media([TYPE |-> "AUDIO", GROUP_ID |-> "aud", NAME |-> "mux"])

StreamAud ==
    StreamInf([BANDWIDTH |-> 1500000, NAME |-> "hd", AUDIO |-> "aud",
               RESOLUTION |-> <<640, 360>>,
               CODECS |-> [vcodec |-> Some("avc1.4d401e"), acodec |-> Some("mp4a.40.2")]])

StreamPlain == StreamInf([BANDWIDTH |-> 500000])

LinePool == {MediaUriAud, MediaMuxAud, StreamAud, StreamPlain, Comment, Uri("lo.m3u8")}

InitM3u8Lines ==
    /\ DlIdle
    /\ SelIdle
    /\ MpdIdle
    /\ IsmIdle
    /\ F4mIdle
    /\ m3u8_doc \in Lists(LinePool, MaxLines)
    /\ m3u8_args = Some([ext |-> Some("mp4"), entry_protocol |-> "m3u8_native",
                         preference |-> None, m3u8_id |-> None, live |-> FALSE])
    /\ m3u8_pc = "start"
    /\ m3u8_line = 0
    /\ m3u8_walk = None

SpecM3u8Lines == InitM3u8Lines /\ [][NextM3u8]_vars

(***************************************************************************)
(* _parse_ism_formats.  An element is a record of its attributes (numbers   *)
(* already read as numbers) and of the children the parser looks at.  Times *)
(* and durations are in the units of the manifest; the duration of a        *)
(* fragment in seconds is kept exact as [num |-> units, den |-> timescale]. *)
(***************************************************************************)
\* int_or_none(element.get(k)) or default
IntOr(attrib, k, default) ==
    IF k \in DOMAIN attrib /\ attrib[k] # 0 THEN attrib[k] ELSE default

\* a / b; every value divided in the documents below is a multiple of b, where
\* floor division and true division give the same number
Div(a, b) == a \div b

\* lines 1845-1848: the element subscripted is the chunk itself, that is its
\* own children; past the last of them the stream Duration is taken
NextFragmentTime(stream_fragment, stream_fragment_index, duration) ==
    IF stream_fragment_index + 2 <= Len(stream_fragment.f)
    THEN stream_fragment.f[stream_fragment_index + 2]["t"]
    ELSE duration

\* lines 1850-1855: the fragments of one chunk
ChunkFragments(time, fragment_duration, fragment_repeat, track_url_pattern, stream_timescale) ==
    [k \in 1..fragment_repeat |->
        [url |-> [pattern |-> track_url_pattern,
                  start_time |-> time + (k - 1) * fragment_duration],
         duration |-> [num |-> fragment_duration, den |-> stream_timescale]]]

\* lines 1840-1855, from the chunk at stream_fragment_index (counted from 0) on
RECURSIVE ChunkLoop(_, _, _, _, _, _, _)
ChunkLoop(stream_fragment_index, stream_fragments, time, duration, track_url_pattern, stream_timescale, fragments) ==
    IF stream_fragment_index >= Len(stream_fragments) THEN fragments
    ELSE LET stream_fragment == stream_fragments[stream_fragment_index + 1]
             fragment_time == IntOr(stream_fragment.attrib, "t", time)
             fragment_repeat == IntOr(stream_fragment.attrib, "r", 1)
             d == IntOr(stream_fragment.attrib, "d", 0)
             fragment_duration ==
                 IF d # 0 THEN d
                 ELSE Div(NextFragmentTime(stream_fragment, stream_fragment_index,
                                           duration) - fragment_time,
                          fragment_repeat)
         IN  ChunkLoop(stream_fragment_index + 1, stream_fragments,
                       fragment_time + fragment_repeat * fragment_duration, duration,
                       track_url_pattern, stream_timescale,
                       fragments \o ChunkFragments(fragment_time, fragment_duration,
                                                   fragment_repeat, track_url_pattern,
                                                   stream_timescale))

\* lines 1835-1855
IsmFragments(stream, duration, track_url_pattern, stream_timescale) ==
    ChunkLoop(0, stream.c, 0, duration, track_url_pattern, stream_timescale, <<>>)

\* lines 1857-1862
IsmFormatId(id, stream_name, tbr) ==
    (IF TruthyStr(id) THEN <<Lit(id[1])>> ELSE <<>>)
    \o (IF stream_name # "" THEN <<Lit(stream_name)>> ELSE <<>>)
    \o <<Digits("d", tbr)>>

\* lines 1827-1889: the descriptor of one QualityLevel
IsmFormat(doc, id, stream, track) ==
    LET duration == doc.attrib["Duration"]
        timescale == IntOr(doc.attrib, "TimeScale", 10000000)
        stream_type == stream.attrib["Type"]
        stream_timescale == IntOr(stream.attrib, "TimeScale", timescale)
        fourcc == track.attrib["FourCC"]
        tbr == track.attrib["Bitrate"] \div 1000
        track_url_pattern == urljoin("http://h/v.ism/Manifest",
                                     [pattern |-> stream.attrib["Url"],
                                      bitrate |-> track.attrib["Bitrate"]])
    IN  [format_id |-> Some(IsmFormatId(id, GetOr(stream.attrib, "Name", ""), tbr)),
         url |-> Some("http://h/v.ism/Manifest"),
         manifest_url |-> Some("http://h/v.ism/Manifest"),
         ext |-> Some(IF stream_type = "video" THEN "ismv" ELSE "isma"),
         width |-> IF "MaxWidth" \in DOMAIN track.attrib
                   THEN Some(track.attrib["MaxWidth"]) ELSE None,
         height |-> IF "MaxHeight" \in DOMAIN track.attrib
                    THEN Some(track.attrib["MaxHeight"]) ELSE None,
         tbr |-> Some(tbr),
         asr |-> IF "SamplingRate" \in DOMAIN track.attrib
                 THEN Some(track.attrib["SamplingRate"]) ELSE None,
         vcodec |-> Some(IF stream_type = "audio" THEN "none" ELSE fourcc),
         acodec |-> Some(IF stream_type = "video" THEN "none" ELSE fourcc),
         protocol |-> "ism",
         fragments |-> IsmFragments(stream, duration, track_url_pattern,
                                    stream_timescale),
         download_params |-> [duration |-> duration, timescale |-> stream_timescale,
                              width |-> IntOr(track.attrib, "MaxWidth", 0),
                              height |-> IntOr(track.attrib, "MaxHeight", 0),
                              fourcc |-> fourcc]]

\* lines 1814-1821: the QualityLevel elements of the video and audio streams, in
\* the order the two loops reach them, as <<stream, track>>
IsmSteps(doc) ==
    Concat([st \in 1..Len(doc.StreamIndex) |->
              IF GetOr(doc.StreamIndex[st].attrib, "Type", "") \in {"video", "audio"}
              THEN [q \in 1..Len(doc.StreamIndex[st].QualityLevel) |-> <<st, q>>]
              ELSE <<>>])

\* lines 1807-1813
ParseIsmStart ==
    /\ ism_doc # None
    /\ ism_pos = 0
    /\ ism_raised = None
    /\ IF ism_doc[1].IsLive \/ ism_doc[1].Protection
       THEN ism_pos' = Len(IsmSteps(ism_doc[1])) + 1 /\ ism_raised' = None
       ELSE IF "Duration" \notin DOMAIN ism_doc[1].attrib
       THEN ism_pos' = ism_pos /\ ism_raised' = Some("KeyError")
       ELSE ism_pos' = 1 /\ ism_raised' = None
    /\ UNCHANGED <<ism_doc, ism_id, ism_formats, selVars, mpdVars, m3u8Vars, f4mVars, dlVars>>

\* lines 1821-1889: one QualityLevel
ParseQualityLevel ==
    /\ ism_doc # None
    /\ ism_raised = None
    /\ ism_pos >= 1
    /\ ism_pos <= Len(IsmSteps(ism_doc[1]))
    /\ LET st == IsmSteps(ism_doc[1])[ism_pos]
           stream == ism_doc[1].StreamIndex[st[1]]
           track == stream.QualityLevel[st[2]]
       IN  IF GetOr(track.attrib, "FourCC", "") \notin {"H264", "AVC1", "AACL"}
           THEN ism_formats' = ism_formats
           ELSE ism_formats' = Append(ism_formats,
                                      IsmFormat(ism_doc[1], ism_id, stream, track))
    /\ ism_pos' = ism_pos + 1
    /\ UNCHANGED <<ism_doc, ism_id, ism_raised, selVars, mpdVars, m3u8Vars, f4mVars, dlVars>>

(***************************************************************************)
(* The ISM documents parsed: a video stream with up to MaxChunks chunks    *)
(***************************************************************************)
\* the c elements: t absent, 0 or 10; d absent or 10; r absent or 2
Chunks ==
    { [attrib |-> Update(Update(t, d), r), f |-> <<>>] :
        t \in {<<>>, [t |-> 0], [t |-> 10]}, d \in {<<>>, [d |-> 10]},
        r \in {<<>>, [r |-> 2]} }

VideoTrack == [attrib |-> [FourCC |-> "H264", Bitrate |-> 500000, MaxWidth |-> 640,
                           MaxHeight |-> 360]]
UnsupportedTrack == [attrib |-> [FourCC |-> "WVC1", Bitrate |-> 300000]]
AudioTrack == [attrib |-> [FourCC |-> "AACL", Bitrate |-> 128000,
                           SamplingRate |-> 44100]]

StreamOf(type, chunks, tracks) ==
    [attrib |-> [Type |-> type, Name |-> type,
                 Url |-> "QualityLevels({bitrate})/Fragments(x={start time})"],
     c |-> chunks, QualityLevel |-> tracks]

IsmOf(live, protection, attrib, streams) ==
    [IsLive |-> live, Protection |-> protection, attrib |-> attrib,
     StreamIndex |-> streams]

IsmDocs ==
    { IsmOf(FALSE, FALSE, [Duration |-> duration],
            << StreamOf("video", chunks, <<VideoTrack, UnsupportedTrack>>) >>) :
        duration \in {20, 40}, chunks \in Lists(Chunks, MaxChunks) }
    \cup
    { IsmOf(v[1], v[2], v[3],
            << StreamOf("text", << >>, <<VideoTrack>>),
               StreamOf("audio", << [attrib |-> [t |-> 0, r |-> 2], f |-> <<>>] >>,
                        <<AudioTrack>>) >>) :
        v \in { <<FALSE, FALSE, [Duration |-> 20, TimeScale |-> 10]>>,
                <<TRUE, FALSE, [Duration |-> 20]>>,
                <<FALSE, TRUE, [Duration |-> 20]>>,
                <<FALSE, FALSE, <<>> >> } }

InitIsm ==
    /\ DlIdle
    /\ SelIdle
    /\ MpdIdle
    /\ M3u8Idle
    /\ F4mIdle
    /\ ism_doc \in { Some(d) : d \in IsmDocs }
    /\ ism_id \in {None, Some("mss")}
    /\ ism_pos = 0
    /\ ism_formats = <<>>
    /\ ism_raised = None

NextIsm == ParseIsmStart \/ ParseQualityLevel

SpecIsm == InitIsm /\ [][NextIsm]_vars

(***************************************************************************)
(* _extract_f4m_formats and _parse_f4m_formats.  A URL is a record of its   *)
(* scheme, its directories, and the name and extension of its last path     *)
(* segment; a relative reference has the scheme "".  f4m_web gives for      *)
(* each URL the document a download finds there, or the error urlopen       *)
(* raises; an invocation of _parse_f4m_formats is a frame of f4m_stack.     *)
(***************************************************************************)
Abs(dir, name, ext) == [scheme |-> "http", dir |-> dir, name |-> name, ext |-> ext]
Rel(dir, name, ext) == [scheme |-> "", dir |-> dir, name |-> name, ext |-> ext]

\* the empty string as a URL
EmptyUrl == Rel(<<>>, "", "")

\* '/'.join(manifest_url.split('/')[:-1])
DirOf(url) == [scheme |-> url.scheme, dir |-> url.dir]

\* lines 1126-1128
ResolveMediaUrl(media_url, base_url, manifest_url) ==
    IF media_url.scheme \in {"http", "https"} THEN media_url
    ELSE LET base == IF base_url # None THEN base_url[1] ELSE DirOf(manifest_url)
         IN  [scheme |-> base.scheme, dir |-> base.dir \o media_url.dir,
              name |-> media_url.name, ext |-> media_url.ext]

\* urlopen's outcome for a URL
Fetch(web, url) ==
    IF url \in DOMAIN web
    THEN (IF web[url].kind = "error" THEN web[url].error ELSE "ok")
    ELSE "HTTPException"

\* lines 1078-1082: "TypeError" for a pv-2.0 element without text, else whether
\* the manifest is given up
PvBlocks(manifest) ==
    IF manifest.pv = None THEN "no"
    ELSE IF manifest.pv[1] = None THEN "TypeError"
    ELSE IF manifest.pv[1][1].semicolon /\ manifest.pv[1][1].head \notin {"", " "}
    THEN "yes"
    ELSE "no"

\* the pv-2.0 test, without the test for a ';'
PvBlocksAnyText(manifest) ==
    IF manifest.pv = None THEN "no"
    ELSE IF manifest.pv[1] = None THEN "TypeError"
    ELSE IF manifest.pv[1][1].head \notin {"", " "}
    THEN "yes"
    ELSE "no"

\* utils.remove_encrypted_media
RECURSIVE remove_encrypted_media(_)
remove_encrypted_media(media) ==
    IF media = <<>> THEN <<>>
    ELSE (IF "drmAdditionalHeaderId" \in DOMAIN media[1]
             \/ "drmAdditionalHeaderSetId" \in DOMAIN media[1]
          THEN <<>> ELSE <<media[1]>>)
         \o remove_encrypted_media(Tail(media))

\* lines 1085-1093
MediaNodes(manifest) == remove_encrypted_media(manifest.media)

\* lines 1103-1108
F4mVcodec(manifest) ==
    IF manifest.mimeType = Some("audio") THEN Some("none") ELSE None

\* int_or_none(media_el.attrib.get(k))
IntAttr(media_el, k) == IF k \in DOMAIN media_el THEN Some(media_el[k]) ELSE None

\* line 1114
F4mFormatId(f4m_id, i, tbr) ==
    (IF TruthyStr(f4m_id) THEN <<Lit(f4m_id[1])>> ELSE <<>>)
    \o <<Digits("d", IF tbr = None THEN i ELSE tbr[1])>>

\* lines 1118-1125: the URL of a media element, None without one
MediaUrl(manifest, media_el) ==
    IF manifest.version = "2.0" /\ "href" \in DOMAIN media_el THEN Some(media_el["href"])
    ELSE IF "url" \in DOMAIN media_el THEN Some(media_el["url"])
    ELSE None

\* x or y for optional numbers
OrNum(x, y) == IF x # None /\ x[1] # 0 THEN x ELSE y

\* lines 1163-1173
F4mFormat(manifest, media_el, i, manifest_url, args) ==
    [format_id |-> Some(F4mFormatId(args.f4m_id, i, IntAttr(media_el, "bitrate"))),
     url |-> Some(manifest_url),
     manifest_url |-> Some(manifest_url),
     ext |-> IF manifest.bootstrapInfo THEN Some("flv") ELSE None,
     tbr |-> IntAttr(media_el, "bitrate"),
     width |-> IntAttr(media_el, "width"),
     height |-> IntAttr(media_el, "height"),
     vcodec |-> F4mVcodec(manifest),
     preference |-> args.preference]

\* lines 1146-1154: the single descriptor of a nested manifest completed from the
\* media element that referred to it
Backfill(f, manifest, media_el, i, args) ==
    LET tbr == IntAttr(media_el, "bitrate")
    IN  Update(f, [tbr |-> OrNum(Get(f, "tbr"), tbr),
                   width |-> OrNum(Get(f, "width"), IntAttr(media_el, "width")),
                   height |-> OrNum(Get(f, "height"), IntAttr(media_el, "height")),
                   format_id |-> IF tbr = None \/ tbr[1] = 0 THEN Get(f, "format_id")
                                 ELSE Some(F4mFormatId(args.f4m_id, i, tbr)),
                   vcodec |-> F4mVcodec(manifest)])

\* lines 1146-1155: what the nested call's result adds to formats
NestedFormats(f4m_formats, manifest, media_el, i, args) ==
    IF Len(f4m_formats) = 1
    THEN <<Backfill(f4m_formats[1], manifest, media_el, i, args)>>
    ELSE f4m_formats

\* the descriptor _extract_m3u8_formats returns for the media playlist at url
NestedM3u8Formats(doc, url, args) ==
    LET fs == M3u8Formats(doc, [ext |-> Some("mp4"), entry_protocol |-> "m3u8",
                                preference |-> args.preference,
                                m3u8_id |-> args.m3u8_id, live |-> FALSE])
    IN  [n \in 1..Len(fs) |-> [fs[n] EXCEPT !.url = Some(url)]]

\* the errnote each entry point hands to the download
Errnote(entry) ==
    CASE entry = "f4m" -> "Unable to download f4m manifest"
      [] entry = "m3u8" -> "Failed to download m3u8 information"
      [] entry = "mpd" -> "Failed to download MPD manifest"
      [] entry = "ism" -> "Failed to download ISM manifest"
      [] entry = "smil" -> "Unable to download SMIL file"
      [] entry = "xspf" -> "Unable to download xspf manifest"

Event(ev, url) == [ev |-> ev, url |-> url]

\* what a download through _request_webpage adds to the log
FetchLog(url, outcome, errnote, fatal) ==
    <<Event("fetch", url)>>
    \o (IF outcome # "ok" /\ errnote # "False" /\ ~fatal
        THEN <<Event("warning", url)>> ELSE <<>>)

\* the frame of the innermost _parse_f4m_formats
Top == f4m_stack[Len(f4m_stack)]

\* the stack with the innermost frame replaced
WithTop(frame) == [f4m_stack EXCEPT ![Len(f4m_stack)] = frame]

\* lines 1057-1110: the download, and _parse_f4m_formats up to its loop
ExtractF4m ==
    /\ ep = Some("f4m")
    /\ f4m_pc = "call"
    /\ Len(f4m_stack) < MaxDepth
    /\ LET url == f4m_call[1]
           fatal == f4m_args[1].fatal
           outcome == Fetch(f4m_web, url)
           res == request_webpage(outcome, Errnote("f4m"), fatal)
           manifest == f4m_web[url].doc
           m3u8_id == IF f4m_stack = <<>> THEN f4m_args[1].m3u8_id ELSE None
       IN  IF res.result = "ExtractorError"
           THEN /\ f4m_pc' = "raised"
                /\ f4m_stack' = <<>>
                /\ f4m_ret' = <<>>
                /\ f4m_log' = f4m_log \o FetchLog(url, outcome, Errnote("f4m"), fatal)
           ELSE IF res.result = "False"
           THEN /\ f4m_pc' = "return"
                /\ f4m_stack' = f4m_stack
                /\ f4m_ret' = <<>>
                /\ f4m_log' = f4m_log \o FetchLog(url, outcome, Errnote("f4m"), fatal)
           ELSE IF PvBlocks(manifest) = "TypeError"
           THEN /\ f4m_pc' = "raised"
                /\ f4m_stack' = <<>>
                /\ f4m_ret' = <<>>
                /\ f4m_log' = f4m_log \o <<Event("fetch", url), Event("parse", url)>>
           ELSE IF PvBlocks(manifest) = "yes" \/ MediaNodes(manifest) = <<>>
           THEN /\ f4m_pc' = "return"
                /\ f4m_stack' = f4m_stack
                /\ f4m_ret' = <<>>
                /\ f4m_log' = f4m_log \o <<Event("fetch", url), Event("parse", url)>>
           ELSE /\ f4m_pc' = "media"
                /\ f4m_stack' = Append(f4m_stack,
                                       [url |-> url, manifest_url |-> url,
                                        manifest |-> manifest, m3u8_id |-> m3u8_id,
                                        media_nodes |-> MediaNodes(manifest),
                                        i |-> 0, formats |-> <<>>])
                /\ f4m_ret' = <<>>
                /\ f4m_log' = f4m_log \o <<Event("fetch", url), Event("parse", url)>>
    /\ f4m_call' = None
    /\ UNCHANGED <<f4m_web, f4m_args, ep, selVars, mpdVars, m3u8Vars, ismVars, dlVars>>

\* lines 1110-1172: one media element
F4mMedia ==
    /\ f4m_pc = "media"
    /\ Top.i < Len(Top.media_nodes)
    /\ LET top == Top
           args == [f4m_args[1] EXCEPT !.m3u8_id = top.m3u8_id]
           media_el == top.media_nodes[top.i + 1]
           media_url == MediaUrl(top.manifest, media_el)
           manifest_url == ResolveMediaUrl(media_url[1], top.manifest.baseURL,
                                           top.manifest_url)
           outcome == Fetch(f4m_web, manifest_url)
           res == request_webpage(outcome, Errnote("m3u8"), args.fatal)
       IN  IF top.manifest.bootstrapInfo
           THEN /\ f4m_stack' = WithTop([top EXCEPT
                     !.i = top.i + 1,
                     !.formats = Append(top.formats,
                                        F4mFormat(top.manifest, media_el, top.i,
                                                  top.manifest_url, args))])
                /\ UNCHANGED <<f4m_pc, f4m_call, f4m_log>>
           ELSE IF media_url = None \/ media_url = Some(EmptyUrl)
           THEN /\ f4m_stack' = WithTop([top EXCEPT !.i = top.i + 1])
                /\ UNCHANGED <<f4m_pc, f4m_call, f4m_log>>
           ELSE IF determine_ext(manifest_url) = "f4m"
           THEN /\ f4m_stack' = WithTop([top EXCEPT !.manifest_url = manifest_url])
                /\ f4m_pc' = "call"
                /\ f4m_call' = Some(manifest_url)
                /\ f4m_log' = f4m_log
           ELSE IF determine_ext(manifest_url) = "m3u8"
           THEN /\ f4m_log' = f4m_log \o FetchLog(manifest_url, outcome, Errnote("m3u8"),
                                                  args.fatal)
                                      \o (IF outcome = "ok"
                                          THEN <<Event("parse", manifest_url)>> ELSE <<>>)
                /\ f4m_call' = None
                /\ IF res.result = "ExtractorError"
                   THEN f4m_pc' = "raised" /\ f4m_stack' = <<>>
                   ELSE /\ f4m_pc' = "media"
                        /\ f4m_stack' = WithTop([top EXCEPT
                             !.manifest_url = manifest_url,
                             !.i = top.i + 1,
                             !.formats = top.formats
                                 \o (IF res.result = "False" THEN <<>>
                                     ELSE NestedM3u8Formats(f4m_web[manifest_url].doc,
                                                            manifest_url, args))])
           ELSE /\ f4m_stack' = WithTop([top EXCEPT
                     !.manifest_url = manifest_url,
                     !.i = top.i + 1,
                     !.formats = Append(top.formats,
                                        F4mFormat(top.manifest, media_el, top.i,
                                                  manifest_url, args))])
                /\ UNCHANGED <<f4m_pc, f4m_call, f4m_log>>
    /\ UNCHANGED <<f4m_web, f4m_args, f4m_ret, ep, selVars, mpdVars, m3u8Vars, ismVars,
                   dlVars>>

\* the stack once the innermost invocation has returned
StillRunning(stack) == stack

Popped(stack) == SubSeq(stack, 1, Len(stack) - 1)

\* line 1173: return formats
F4mLoopEnd ==
    /\ f4m_pc = "media"
    /\ Top.i = Len(Top.media_nodes)
    /\ f4m_ret' = Top.formats
    /\ f4m_stack' = Popped(f4m_stack)
    /\ f4m_pc' = "return"
    /\ UNCHANGED <<f4m_web, f4m_args, f4m_call, f4m_log, ep, selVars, mpdVars, m3u8Vars,
                   ismVars, dlVars>>

\* lines 1137-1156: the caller takes up the list a call returned
F4mReturn ==
    /\ ep = Some("f4m")
    /\ f4m_pc = "return"
    /\ IF f4m_stack = <<>>
       THEN /\ f4m_pc' = "done"
            /\ UNCHANGED <<f4m_stack, f4m_ret>>
       ELSE LET top == Top
                args == [f4m_args[1] EXCEPT !.m3u8_id = top.m3u8_id]
                media_el == top.media_nodes[top.i + 1]
            IN  /\ f4m_pc' = "media"
                /\ f4m_ret' = <<>>
                /\ f4m_stack' = WithTop([top EXCEPT
                     !.i = top.i + 1,
                     !.formats = top.formats
                                 \o NestedFormats(f4m_ret, top.manifest, media_el,
                                                  top.i, args)])
    /\ UNCHANGED <<f4m_web, f4m_args, f4m_call, f4m_log, ep, selVars, mpdVars, m3u8Vars,
                   ismVars, dlVars>>

\* lines 1191-1199, 1328-1338, 1505-1511, 1548-1561, 1793-1804: the download of
\* the other entry points, which hand what they fetched to their parser
ExtractOther ==
    /\ ep # None
    /\ ep # Some("f4m")
    /\ f4m_pc = "call"
    /\ LET url == f4m_call[1]
           fatal == f4m_args[1].fatal
           outcome == Fetch(f4m_web, url)
           res == request_webpage(outcome, Errnote(ep[1]), fatal)
       IN  /\ f4m_log' = f4m_log \o FetchLog(url, outcome, Errnote(ep[1]), fatal)
                                 \o (IF outcome = "ok" THEN <<Event("parse", url)>>
                                     ELSE <<>>)
           /\ f4m_pc' = IF res.result = "ExtractorError" THEN "raised"
                        ELSE IF res.result = "False" THEN "done"
                        ELSE "parse"
    /\ f4m_ret' = <<>>
    /\ f4m_call' = None
    /\ UNCHANGED <<f4m_web, f4m_args, f4m_stack, ep, selVars, mpdVars, m3u8Vars, ismVars,
                   dlVars>>

(***************************************************************************)
(* The manifests resolved: a set-level manifest at RootUrl whose media      *)
(* elements may refer to the manifests at AUrl and BUrl and to a playlist   *)
(***************************************************************************)
RootUrl == Abs(<<"h">>, "root", "f4m")
AUrl == Abs(<<"h">>, "a", "f4m")
BUrl == Abs(<<"h">>, "b", "f4m")
PlaylistUrl == Abs(<<"h">>, "p", "m3u8")

ManifestOf(pv, version, baseURL, bootstrapInfo, mimeType, media) ==
    [kind |-> "f4m",
     doc |-> [pv |-> pv, version |-> version, baseURL |-> baseURL,
              bootstrapInfo |-> bootstrapInfo, mimeType |-> mimeType, media |-> media]]

Plain(media) == ManifestOf(None, "1.0", None, FALSE, None, media)

Failure(error) == [kind |-> "error", error |-> error]

MediaVideo == [url |-> Abs(<<"h">>, "v1", ""), bitrate |-> 500, width |-> 640,
               height |-> 360]
MediaBare == [url |-> Rel(<<"s">>, "v2", "")]
MediaA == [url |-> Rel(<<>>, "a", "f4m"), bitrate |-> 800, width |-> 1280]
MediaB == [url |-> BUrl]
MediaRoot == [url |-> RootUrl]
MediaPlaylist == [url |-> Rel(<<>>, "p", "m3u8")]
MediaDrm == [url |-> Abs(<<"h">>, "v3", ""), drmAdditionalHeaderId |-> "x"]
MediaHref == [href |-> Rel(<<>>, "b", "f4m"), url |-> Abs(<<"h">>, "v4", "")]

PvText(head, semicolon) == Some(Some([head |-> head, semicolon |-> semicolon]))

RootManifests ==
    { Plain(media) :
        media \in Lists({MediaVideo, MediaBare, MediaA, MediaB, MediaPlaylist}, MaxMedia) }
    \cup
    { ManifestOf(pv, "1.0", None, FALSE, None, <<MediaA, MediaVideo>>) :
        pv \in { PvText("abc", TRUE), PvText("abc", FALSE), PvText(" ", TRUE),
                 Some(None) } }
    \cup
    { ManifestOf(None, "2.0", Some(DirOf(Abs(<<"cdn">>, "", ""))), FALSE, Some("audio"),
                 <<MediaHref, MediaBare>>),
      ManifestOf(None, "1.0", None, FALSE, None, <<MediaDrm, [width |-> 640], MediaB>>),
      ManifestOf(None, "1.0", None, FALSE, None, <<MediaDrm>>),
      Failure("URLError") }

AManifests ==
    { Plain(<<MediaB>>), Plain(<<MediaBare>>), Plain(<<MediaRoot>>), Plain(<<MediaA>>),
      Plain(<<MediaB, MediaVideo>>), Failure("URLError") }

BManifests ==
    { Plain(<<MediaVideo>>), Plain(<<MediaA>>),
      ManifestOf(None, "1.0", None, TRUE, None, <<[bitrate |-> 0]>>),
      ManifestOf(PvText("abc", TRUE), "1.0", None, FALSE, None, <<MediaA>>),
      Failure("HTTPException") }

PlaylistDocs ==
    { [kind |-> "m3u8", doc |-> <<TargetDuration, Uri("seg.ts")>>], Failure("socket.error") }

F4mWebs ==
    { (RootUrl :> r) @@ (AUrl :> a) @@ (BUrl :> b) @@ (PlaylistUrl :> p) :
        r \in RootManifests, a \in AManifests, b \in BManifests, p \in PlaylistDocs }

\* the URL each other entry point is called with, and what is found there
OtherUrl(entry) == Abs(<<"h">>, "m", entry)

OtherWebs(entry) ==
    { (OtherUrl(entry) :> d) :
        d \in { [kind |-> entry, doc |-> <<>>] }
              \cup { Failure(e) : e \in UrlopenOutcomes \ {"ok"} } }

F4mArgs ==
    { Some([fatal |-> fatal, f4m_id |-> id, m3u8_id |-> Some("hls"),
            preference |-> None]) :
        fatal \in BOOLEAN, id \in {None, Some("hds")} }

InitF4m ==
    /\ DlIdle
    /\ SelIdle
    /\ MpdIdle
    /\ M3u8Idle
    /\ IsmIdle
    /\ ep \in { Some(e) : e \in {"f4m", "m3u8", "mpd", "ism", "smil", "xspf"} }
    /\ f4m_args \in F4mArgs
    /\ IF ep = Some("f4m")
       THEN f4m_web \in F4mWebs /\ f4m_call = Some(RootUrl)
       ELSE f4m_web \in OtherWebs(ep[1]) /\ f4m_call = Some(OtherUrl(ep[1]))
    /\ f4m_pc = "call"
    /\ f4m_stack = <<>>
    /\ f4m_ret = <<>>
    /\ f4m_log = <<>>

NextF4m == ExtractF4m \/ F4mMedia \/ F4mLoopEnd \/ F4mReturn \/ ExtractOther

SpecF4m == InitF4m /\ [][NextF4m]_vars

\* the resolution alone, from set-level manifests without a challenge
InitResolve ==
    /\ DlIdle
    /\ SelIdle
    /\ MpdIdle
    /\ M3u8Idle
    /\ IsmIdle
    /\ ep = Some("f4m")
    /\ f4m_args \in { a \in F4mArgs : a[1].f4m_id = None }
    /\ f4m_web \in { w \in F4mWebs :
                       w[RootUrl] \in { Plain(media) :
                           media \in Lists({MediaVideo, MediaA, MediaB, MediaPlaylist},
                                           MaxMedia) } }
    /\ f4m_call = Some(RootUrl)
    /\ f4m_pc = "call"
    /\ f4m_stack = <<>>
    /\ f4m_ret = <<>>
    /\ f4m_log = <<>>

NextResolve == ExtractF4m \/ F4mMedia \/ F4mLoopEnd \/ F4mReturn

\* the interpreter runs the next statement of the innermost call as long as there
\* is one
SpecResolve == InitResolve /\ [][NextResolve]_vars /\ WF_vars(NextResolve)

(***************************************************************************)
(* The four manifest parsers side by side: one of them runs                 *)
(***************************************************************************)
InitParsers == InitMpdWalk \/ InitIsm \/ InitM3u8 \/ InitF4m

NextParsers == NextMpd \/ NextIsm \/ NextM3u8 \/ NextF4m

SpecParsers == InitParsers /\ [][NextParsers]_vars

(***************************************************************************)
(* _download_webpage and what it calls.  Each attempt draws what urlopen    *)
(* does and what reading the handle does; the log keeps the attempts made   *)
(* and the sleeps between them.  _extract_smil_formats downloads through    *)
(* _download_smil and _download_xml, that is through _download_webpage      *)
(* with the SMIL errnote and the default tries and timeout.                 *)
(***************************************************************************)
\* what urlh.read() and the checks of _webpage_read_content do
ReadOutcomes == {"ok", "IncompleteRead", "blocked"}

\* lines 420-431 and 449-511: the content, False, or the exception that leaves
download_webpage_handle(outcome, read, errnote, fatal) ==
    LET urlh == request_webpage(outcome, errnote, fatal)
    IN  IF urlh.result = "ExtractorError" THEN "ExtractorError"
        ELSE IF urlh.result = "False"
        THEN IF fatal THEN "AssertionError" ELSE "False"
        ELSE IF read = "IncompleteRead" THEN "IncompleteRead"
        ELSE IF read = "blocked" THEN "ExtractorError"
        ELSE "content"

\* one attempt too many before the IncompleteRead is raised again
GivesUpLate(count, tries) == count > tries

\* line 523: if try_count >= tries
GivesUp(count, tries) == count >= tries

Attempt(result) == [ev |-> "attempt", result |-> result, timeout |-> 0]

Sleep(timeout) == [ev |-> "sleep", result |-> "", timeout |-> timeout]

\* lines 517-524: one turn of the loop up to the sleep
DownloadAttempt ==
    /\ dl_pc = "try"
    /\ \E outcome \in UrlopenOutcomes, read \in ReadOutcomes :
         LET args == dl_args[1]
             res == download_webpage_handle(outcome, read, args.errnote, args.fatal)
         IN  /\ dl_log' = Append(dl_log, Attempt(res))
             /\ IF res = "IncompleteRead"
                THEN /\ try_count' = try_count + 1
                     /\ IF GivesUp(try_count + 1, args.tries)
                        THEN dl_pc' = "raised" /\ dl_res' = Some(res)
                        ELSE dl_pc' = "sleep" /\ dl_res' = None
                ELSE /\ try_count' = try_count
                     /\ dl_res' = Some(res)
                     /\ dl_pc' = IF res \in {"content", "False"} THEN "returned"
                                 ELSE "raised"
    /\ UNCHANGED <<dl_args, selVars, mpdVars, m3u8Vars, ismVars, f4mVars>>

\* lines 525 and 1050-1055: self._sleep(timeout, video_id), then the next turn
DownloadSleep ==
    /\ dl_pc = "sleep"
    /\ dl_log' = Append(dl_log, Sleep(dl_args[1].timeout))
    /\ dl_pc' = "try"
    /\ UNCHANGED <<dl_args, try_count, dl_res, selVars, mpdVars, m3u8Vars, ismVars, f4mVars>>

\* lines 1328-1338: what _extract_smil_formats does with what _download_smil gave
SmilReturn ==
    /\ dl_pc = "returned"
    /\ dl_args[1].caller = "_extract_smil_formats"
    /\ dl_pc' = IF dl_res = Some("False") /\ dl_args[1].fatal THEN "raised" ELSE "done"
    /\ dl_res' = IF dl_res = Some("False")
                 THEN IF dl_args[1].fatal THEN Some("AssertionError") ELSE Some("[]")
                 ELSE Some("formats")
    /\ UNCHANGED <<dl_args, try_count, dl_log, selVars, mpdVars, m3u8Vars, ismVars, f4mVars>>

\* the calls made: _download_webpage with every fatal, errnote, tries and timeout,
\* and _extract_smil_formats with every fatal
DownloadCalls ==
    { [caller |-> "_download_webpage", fatal |-> fatal, errnote |-> errnote,
       tries |-> tries, timeout |-> timeout] :
        fatal \in BOOLEAN, errnote \in {"None", "False", "Unable to download webpage"},
        tries \in 0..MaxTries, timeout \in {1, 5} }
    \cup
    { [caller |-> "_extract_smil_formats", fatal |-> fatal,
       errnote |-> Errnote("smil"), tries |-> 1, timeout |-> 5] : fatal \in BOOLEAN }

InitDownload ==
    /\ SelIdle
    /\ MpdIdle
    /\ M3u8Idle
    /\ IsmIdle
    /\ F4mIdle
    /\ dl_pc = "try"
    /\ dl_args \in { Some(c) : c \in DownloadCalls }
    /\ try_count = 0
    /\ dl_res = None
    /\ dl_log = <<>>

NextDownload == DownloadAttempt \/ DownloadSleep \/ SmilReturn

SpecDownload == InitDownload /\ [][NextDownload]_vars

\* a step is taken whenever one is possible: the loop runs on, a sleep ends
SpecDownloadFair == SpecDownload /\ WF_vars(NextDownload)

(***************************************************************************)
(* Format selector: claims                                                 *)
(***************************************************************************)
KeyOf(f) == FormatsKey(f, prefer_free_formats)

Sorted == op = "sort" /\ raised = None

\* the first fifteen components of two keys agree
TieBeforeId(f, g) == \A c \in 1..15 : KeyOf(f)[c] = KeyOf(g)[c]

\* C1: after _sort_formats the list is in non-decreasing order of the composite
\* key, so the key of the last element is >= the key of every other element.
C1_SortedByKey ==
    Sorted =>
        /\ \A i, j \in 1..Len(formats) :
              i < j => KeyLeq(KeyOf(formats[i]), KeyOf(formats[j]))
        /\ \A i \in 1..Len(formats) :
              KeyLeq(KeyOf(formats[i]), KeyOf(formats[Len(formats)]))

\* a sort of three descriptors that moved the one that came first to the end
C1_Witness ==
    /\ Sorted
    /\ Len(formats) = 3
    /\ formats[3] = CompletedFormats(formats_in, prefer_free_formats)[1]
    /\ KeyLess(KeyOf(formats[1]), KeyOf(formats[2]))
    /\ KeyLess(KeyOf(formats[2]), KeyOf(formats[3]))

\* C2: a descriptor with the smaller explicit preference is placed before one
\* with the larger explicit preference, whatever their other fields are.
C2_PreferenceDominates ==
    Sorted =>
        \A i, j \in 1..Len(formats) :
            ( /\ Get(formats[i], "preference") # None
              /\ Get(formats[j], "preference") # None
              /\ formats[i]["preference"][1] < formats[j]["preference"][1] )
            => i < j

\* the permutations of 1..n
Perms(n) == { p \in [1..n -> 1..n] : \A i, j \in 1..n : p[i] = p[j] => i = j }

\* the format_id the key uses: the empty string when there is none
IdOf(f) == IF Get(f, "format_id") # None THEN f["format_id"][1] ELSE <<>>

DistinctIds(fs) == \A i, j \in 1..Len(fs) : IdOf(fs[i]) = IdOf(fs[j]) => i = j

\* C3: every permutation of an input whose format_ids are pairwise distinct is
\* sorted to the same sequence; a tie on the earlier components goes by format_id.
C3_Deterministic ==
    (Sorted /\ DistinctIds(formats_in)) =>
        /\ \A p \in Perms(Len(formats_in)) :
              SortedFormats([i \in 1..Len(formats_in) |-> formats_in[p[i]]],
                            prefer_free_formats) = formats
        /\ \A i, j \in 1..Len(formats) :
              (i < j /\ TieBeforeId(formats[i], formats[j]))
              => StrLess(IdOf(formats[i]), IdOf(formats[j]))

\* two descriptors that tie on everything but format_id came in the other order
C3_Witness ==
    /\ Sorted
    /\ DistinctIds(formats_in)
    /\ Len(formats) = 3
    /\ \E i \in 1..2 :
          /\ TieBeforeId(formats[i], formats[i + 1])
          /\ \E a, b \in 1..3 :
                /\ a < b
                /\ CompletedFormats(formats_in, prefer_free_formats)[a] = formats[i + 1]
                /\ CompletedFormats(formats_in, prefer_free_formats)[b] = formats[i]

\* C4: _remove_duplicate_formats applied to its own result changes nothing.
C4_DedupIdempotent ==
    op = "dedup" => UniqueFormats(formats) = formats

\* a de-duplication that removed two descriptors with one url
C4_Witness ==
    /\ op = "dedup"
    /\ Len(formats_in) = 3
    /\ Len(formats) = 1

\* the positions of fs that hold the first descriptor with their url
FirstOccurrences(fs) ==
    { i \in 1..Len(fs) : \A j \in 1..(i - 1) : fs[j]["url"] # fs[i]["url"] }

\* C5: what is left is, in the original order, exactly the first descriptor of
\* each url: no url twice, and only repeats of an earlier url are removed.
C5_FirstOccurrenceWins ==
    op = "dedup" =>
        /\ \A i, j \in 1..Len(formats) :
              formats[i]["url"] = formats[j]["url"] => i = j
        /\ Len(formats) = Cardinality(FirstOccurrences(formats_in))
        /\ \A n \in 1..Len(formats) :
              \E i \in FirstOccurrences(formats_in) :
                 /\ formats[n] = formats_in[i]
                 /\ Cardinality({k \in FirstOccurrences(formats_in) : k < i}) = n - 1

\* the middle one of three descriptors was removed, the one after it kept
C5_Witness ==
    /\ op = "dedup"
    /\ Len(formats_in) = 3
    /\ formats = <<formats_in[1], formats_in[3]>>
    /\ formats_in[1] # formats_in[2]

\* C6: _check_formats removes exactly the descriptors whose probe failed and
\* lets no error out, whichever transport failure urlopen reported.
C6_CheckNeverFails ==
    op = "check" =>
        /\ raised = None
        /\ formats = FilterValid(formats_in,
               [i \in 1..Len(formats_in) |->
                  IF probes[i] \in {"ok", "none"} THEN "True" ELSE "False"])

\* the descriptor g is the descriptor f with its tbr and ext completed
CompletionOf(g, f) ==
    /\ DOMAIN f \subseteq DOMAIN g
    /\ DOMAIN g \subseteq (DOMAIN f) \cup {"tbr", "ext"}
    /\ \A k \in (DOMAIN f) \ {"tbr", "ext"} : g[k] = f[k]
    /\ IF "tbr" \in DOMAIN f THEN g["tbr"] = f["tbr"]
       ELSE IF Get(f, "abr") # None /\ Get(f, "vbr") # None
       THEN "tbr" \in DOMAIN g /\ g["tbr"] = Some(f["abr"][1] + f["vbr"][1])
       ELSE "tbr" \notin DOMAIN g
    /\ IF TruthyStr(Get(f, "ext")) THEN g["ext"] = f["ext"]
       ELSE IF "url" \in DOMAIN f
       THEN "ext" \in DOMAIN g /\ g["ext"] = Some(determine_ext(f["url"][1]))
       ELSE "ext" \in DOMAIN g <=> "ext" \in DOMAIN f

ParsedBy(branch) ==
    /\ mpd_ms_info # None
    /\ "fragments" \in DOMAIN mpd_ms_info[1]
    /\ mpd_pos >= 2
    /\ Len(Steps(mpd_doc[1])[mpd_pos - 1]) = 3
    /\ FragmentsBranch(mpd_ms_info[1]) = branch

\* the Representation element just parsed
LastRepresentation ==
    LET st == Steps(mpd_doc[1])[mpd_pos - 1]
    IN  mpd_doc[1].Period[st[1]].AdaptationSet[st[2]].Representation[st[3]]

\* the media fragments made for it
MediaFragments == mpd_ms_info[1]["fragments"]

\* the number substituted for a placeholder of the template in a fragment's url
Substituted(fragment, kind) ==
    LET tpl == LastRepresentation.SegmentTemplate[1].media[1]
        i == CHOOSE i \in 1..Len(tpl) : tpl[i].kind = kind
    IN  fragment.url.rel[i].value

\* the number of fragments the S elements before element i stand for
RECURSIVE FragmentsBefore(_, _)
FragmentsBefore(s_e, i) ==
    IF i <= 1 THEN 0
    ELSE FragmentsBefore(s_e, i - 1) + 1 + GetOr(s_e[i - 1], "r", 0)

\* C7: a SegmentTimeline is expanded in order, S element i giving 1 + r fragments
\* of duration d / timescale whose $Time$ values are d apart, so there are as
\* many fragments as the sum of 1 + r.
C7_TimelineExpansion ==
    ParsedBy("timeline") =>
        LET st == LastRepresentation.SegmentTemplate[1]
            s_e == st.SegmentTimeline[1]
            timescale == IF st.timescale # None THEN st.timescale[1] ELSE 1
            hasTime == \E i \in 1..Len(st.media[1]) : st.media[1][i].kind = "Time"
        IN  /\ Len(MediaFragments) = FragmentsBefore(s_e, Len(s_e) + 1)
            /\ \A i \in 1..Len(s_e) :
                 \A k \in 0..GetOr(s_e[i], "r", 0) :
                    LET n == FragmentsBefore(s_e, i) + k + 1
                    IN  /\ n <= Len(MediaFragments)
                        /\ MediaFragments[n].duration
                             = Some([num |-> s_e[i]["d"], den |-> timescale])
                        /\ (hasTime /\ k > 0) =>
                              Substituted(MediaFragments[n], "Time")
                                - Substituted(MediaFragments[n - 1], "Time")
                              = s_e[i]["d"]

\* the timeline [{t:0, d:10, r:2}] with timescale 1 gave three fragments of
\* duration 10 at $Time$ 0, 10 and 20
C7_Witness ==
    /\ ParsedBy("timeline")
    /\ LastRepresentation.SegmentTemplate[1].SegmentTimeline
          = Some(<< [t |-> 0, d |-> 10, r |-> 2] >>)
    /\ LastRepresentation.SegmentTemplate[1].timescale = None
    /\ Len(MediaFragments) = 3
    /\ \A n \in 1..3 :
         /\ MediaFragments[n].duration = Some([num |-> 10, den |-> 1])
         /\ MediaFragments[n].url.rel[3] = Digits("d", 10 * (n - 1))

\* C8: a $Number$ template with a segment duration D, timescale T and a Period
\* of P seconds gives ceil(P / (D / T)) fragments numbered from startNumber on.
C8_FixedDurationCount ==
    ParsedBy("number") =>
        LET st == LastRepresentation.SegmentTemplate[1]
            D == st.duration[1]
            T == IF st.timescale # None THEN st.timescale[1] ELSE 1
            P == mpd_doc[1].Period[1].duration[1]
            start_number == IF st.startNumber # None THEN st.startNumber[1] ELSE 1
            count == Len(MediaFragments)
        IN  /\ count * D >= P * T
            /\ (count - 1) * D < P * T
            /\ \A n \in 1..count :
                 Substituted(MediaFragments[n], "Number") = start_number + n - 1

\* duration 5, timescale 1 and a Period of 12 s gave three fragments, numbered
\* 5, 6 and 7 for startNumber 5
C8_Witness ==
    /\ ParsedBy("number")
    /\ LastRepresentation.SegmentTemplate[1].duration = Some(5)
    /\ LastRepresentation.SegmentTemplate[1].timescale = None
    /\ LastRepresentation.SegmentTemplate[1].startNumber = Some(5)
    /\ mpd_doc[1].Period[1].duration = Some(12)
    /\ Len(MediaFragments) = 3
    /\ \A n \in 1..3 : MediaFragments[n].url.rel[2] = Digits("d", 4 + n)

\* the Representation just parsed, with what it inherits
LastStep == Steps(mpd_doc[1])[mpd_pos - 1]

\* a Representation has just been gone through without an exception
RepresentationParsed ==
    /\ mpd_doc # None
    /\ mpd_raised = None
    /\ mpd_pos >= 2
    /\ Len(LastStep) = 3

\* the SegmentList the Representation just parsed has or inherits, None without
InheritedSegmentList ==
    IF LastRepresentation.SegmentList # None THEN LastRepresentation.SegmentList
    ELSE mpd_doc[1].Period[LastStep[1]].AdaptationSet[LastStep[2]].SegmentList

\* the S element that covers position k of the expanded timeline
RECURSIVE Covering(_, _)
Covering(s_e, k) ==
    IF k <= 1 + GetOr(s_e[1], "r", 0) \/ Len(s_e) = 1 THEN s_e[1]
    ELSE Covering(Tail(s_e), k - 1 - GetOr(s_e[1], "r", 0))

\* C21: a SegmentList with a SegmentTimeline that stands for as many segments as
\* there are SegmentURLs gives one fragment per SegmentURL, in document order,
\* each with the duration d / timescale of the S element covering its position.
C21_SegmentListPairing ==
    (RepresentationParsed /\ InheritedSegmentList # None /\ HasTimeline(InheritedSegmentList[1])
     /\ TotalNumber(InheritedSegmentList[1].SegmentTimeline[1])
          = Len(InheritedSegmentList[1].SegmentURL)) =>
        LET sl == InheritedSegmentList[1]
            timescale == IF sl.timescale # None THEN sl.timescale[1] ELSE 1
        IN  /\ "fragments" \in DOMAIN mpd_ms_info[1]
            /\ Len(MediaFragments) = Len(sl.SegmentURL)
            /\ \A k \in 1..Len(sl.SegmentURL) :
                  /\ k <= Len(MediaFragments)
                  /\ MediaFragments[k].url.rel = sl.SegmentURL[k]
                  /\ MediaFragments[k].duration
                       = Some([num |-> Covering(sl.SegmentTimeline[1], k)["d"],
                               den |-> timescale])

\* the descriptor made for the Representation just parsed
LastDescriptor ==
    LET i == CHOOSE i \in 1..Len(mpd_formats) :
                 mpd_formats[i]["format_id"]
                   = FormatId(mpd_id, LastRepresentation.attrib["id"])
    IN  mpd_formats[i]

\* the urls of a fragment list, before they are joined to the base url
RelUrls(fragments) == [k \in 1..Len(fragments) |-> fragments[k].url.rel]

\* C22: a Representation that has or inherits a SegmentList with n SegmentURLs,
\* with or without a SegmentTimeline, gives a descriptor with protocol
\* http_dash_segments whose fragments are the Initialization url, if any, and
\* then the n listed urls; a media template is not used.
C22_SegmentListMaterialized ==
    (RepresentationParsed /\ InheritedSegmentList # None) =>
        LET sl == InheritedSegmentList[1]
            d == LastDescriptor
        IN  /\ "fragments" \in DOMAIN d
            /\ "protocol" \in DOMAIN d
            /\ d["protocol"] = "http_dash_segments"
            /\ RelUrls(d["fragments"])
                 = (IF sl.Initialization # None THEN <<sl.Initialization[1]>> ELSE <<>>)
                   \o sl.SegmentURL

\* what a token of the media template stands for in the url of a fragment with
\* the given number and start time
Expansion(token, representation_id, bandwidth, number, time) ==
    CASE token.kind = "$$" -> Lit("$")
      [] token.kind = "RepresentationID" -> Lit(representation_id)
      [] token.kind = "Number" -> Digits(token.text, number)
      [] token.kind = "Time" -> Digits(token.text, time)
      [] token.kind = "Bandwidth" -> Digits(token.text, bandwidth)
      [] OTHER -> token

\* the start time of fragment n: the t of the first S element and the durations
\* of the fragments before it
RECURSIVE StartTime(_, _)
StartTime(s_e, n) ==
    IF n <= 1 THEN GetOr(s_e[1], "t", 0)
    ELSE StartTime(s_e, n - 1) + Covering(s_e, n - 1)["d"]

\* C23: in every fragment url made from a media template, $$ has become a single
\* $, $RepresentationID$ the Representation id, and $Number$, $Time$ and
\* $Bandwidth$ the fragment's number, its start time and the bandwidth.
C23_TemplateSubstitution ==
    (ParsedBy("number") \/ ParsedBy("timeline")) =>
        LET st == LastRepresentation.SegmentTemplate[1]
            tpl == st.media[1]
            start_number == IF st.startNumber # None THEN st.startNumber[1] ELSE 1
        IN  \A n \in 1..Len(MediaFragments) :
              \A i \in 1..Len(tpl) :
                 MediaFragments[n].url.rel[i]
                   = Expansion(tpl[i], LastRepresentation.attrib["id"],
                               LastRepresentation.attrib["bandwidth"],
                               start_number + n - 1,
                               IF HasTimeline(st)
                               THEN StartTime(st.SegmentTimeline[1], n) ELSE 0)

\* the first fragment made for S element i of the timeline just parsed
FirstFragmentOf(s_e, i) == MediaFragments[FragmentsBefore(s_e, i) + 1]

\* the last one
LastFragmentOf(s_e, i) == MediaFragments[FragmentsBefore(s_e, i + 1)]

\* C20: an S element that gives t (0 included) has its first fragment at $Time$
\* t; one that omits t continues at the $Time$ of the last fragment of the
\* element before plus that element's d; and fragment k (from 0) has $Number$
\* start_number + k.
C20_TimeCursor ==
    ParsedBy("timeline") =>
        LET st == LastRepresentation.SegmentTemplate[1]
            s_e == st.SegmentTimeline[1]
            start_number == IF st.startNumber # None THEN st.startNumber[1] ELSE 1
            hasTime == \E i \in 1..Len(st.media[1]) : st.media[1][i].kind = "Time"
            hasNumber == \E i \in 1..Len(st.media[1]) : st.media[1][i].kind = "Number"
        IN  /\ hasTime =>
                 \A i \in 1..Len(s_e) :
                    Substituted(FirstFragmentOf(s_e, i), "Time")
                      = IF "t" \in DOMAIN s_e[i] THEN s_e[i]["t"]
                        ELSE IF i = 1 THEN 0
                        ELSE Substituted(LastFragmentOf(s_e, i - 1), "Time")
                               + s_e[i - 1]["d"]
            /\ hasNumber =>
                 \A n \in 1..Len(MediaFragments) :
                    Substituted(MediaFragments[n], "Number") = start_number + n - 1

\* _parse_mpd_formats has returned its formats
MpdDone ==
    /\ mpd_doc # None
    /\ mpd_raised = None
    /\ mpd_pos = Len(Steps(mpd_doc[1])) + 1

\* the Representations of the document, as <<p, a, r>>
Representations ==
    { st \in { <<p, a, r>> : p \in 1..2, a \in 1..1, r \in 1..(MaxRepresentations + 1) } :
        /\ st[1] <= Len(mpd_doc[1].Period)
        /\ st[2] <= Len(mpd_doc[1].Period[st[1]].AdaptationSet)
        /\ st[3] <= Len(mpd_doc[1].Period[st[1]].AdaptationSet[st[2]].Representation) }

AdaptationSetAt(st) == mpd_doc[1].Period[st[1]].AdaptationSet[st[2]]

RepresentationAt(st) == AdaptationSetAt(st).Representation[st[3]]

\* the Representation at st has what the parser needs: a mimeType, a d on every
\* S element, and a segment duration when its $Number$ template has no timeline
WellFormed(st) ==
    LET attrib == Update(AdaptationSetAt(st).attrib, RepresentationAt(st).attrib)
        template == RepresentationAt(st).SegmentTemplate
    IN  /\ "mimeType" \in DOMAIN attrib
        /\ template # None =>
              /\ template[1].SegmentTimeline # None =>
                    \A i \in 1..Len(template[1].SegmentTimeline[1]) :
                        "d" \in DOMAIN template[1].SegmentTimeline[1][i]
              /\ (template[1].SegmentTimeline = None /\ HasNumber(template[1].media[1]))
                    => template[1].duration # None

\* a ContentProtection element is a child of the element
ProtectedChild(element) == element.ContentProtection

\* a ContentProtection element is somewhere in the subtree of the Representation
ProtectedSubtree(representation) ==
    \/ representation.ContentProtection
    \/ \E i \in 1..Len(representation.SubRepresentation) :
          representation.SubRepresentation[i].ContentProtection

\* some returned descriptor has the format_id of the Representation at st
HasDescriptor(st) ==
    \E i \in 1..Len(mpd_formats) :
        mpd_formats[i]["format_id"] = FormatId(mpd_id, RepresentationAt(st).attrib["id"])

\* C14: a malformed Representation (no mimeType, an S element without d, a
\* $Number$ template without a segment duration) is skipped: the parse raises
\* nothing and returns a descriptor for every well-formed Representation that
\* is not protected.
C14_MalformedRepresentationSkipped ==
    /\ mpd_doc # None => mpd_raised = None
    /\ MpdDone =>
          \A st \in Representations :
              ( /\ WellFormed(st)
                /\ ~ProtectedChild(AdaptationSetAt(st))
                /\ ~ProtectedChild(RepresentationAt(st)) )
              => HasDescriptor(st)

\* C16: the formats returned never hold two descriptors with the same
\* format_id, with an mpd_id prefix or without one.
C16_NoDuplicateFormatId ==
    MpdDone =>
        \A i, j \in 1..Len(mpd_formats) :
            mpd_formats[i]["format_id"] = mpd_formats[j]["format_id"] => i = j

\* C17: no returned descriptor comes from a Representation with a
\* ContentProtection element in its subtree or as a child of its AdaptationSet,
\* and every other well-formed Representation has its descriptor.
C17_ProtectedExcluded ==
    MpdDone =>
        \A st \in Representations :
            IF \/ ProtectedSubtree(RepresentationAt(st))
               \/ ProtectedChild(AdaptationSetAt(st))
            THEN ~HasDescriptor(st)
            ELSE WellFormed(st) => HasDescriptor(st)

(***************************************************************************)
(* ISM: claims                                                             *)
(***************************************************************************)
\* the stream whose QualityLevel has just been parsed into a descriptor
IsmParsed ==
    /\ ism_doc # None
    /\ ism_pos >= 2
    /\ ism_formats # <<>>
    /\ LET st == IsmSteps(ism_doc[1])[ism_pos - 1]
       IN  ism_doc[1].StreamIndex[st[1]].QualityLevel[st[2]].attrib["FourCC"]
             \in {"H264", "AVC1", "AACL"}

IsmStream == ism_doc[1].StreamIndex[IsmSteps(ism_doc[1])[ism_pos - 1][1]]

IsmLastFragments == ism_formats[Len(ism_formats)].fragments

\* every chunk omits d, the first chunk starts at 0, and the start times given
\* by later chunks increase and stay below the stream Duration
DurationsInferred(chunks, duration) ==
    /\ chunks # <<>>
    /\ \A i \in 1..Len(chunks) : "d" \notin DOMAIN chunks[i].attrib
    /\ GetOr(chunks[1].attrib, "t", 0) = 0
    /\ \A i \in 2..Len(chunks) :
          /\ "t" \in DOMAIN chunks[i].attrib
          /\ chunks[i].attrib["t"] > GetOr(chunks[i - 1].attrib, "t", 0)
          /\ chunks[i].attrib["t"] < duration

\* the number of repetitions the chunks ask for
RECURSIVE RepeatSum(_)
RepeatSum(chunks) ==
    IF chunks = <<>> THEN 0
    ELSE GetOr(chunks[1].attrib, "r", 1) + RepeatSum(Tail(chunks))

\* the sum of the fragment durations, in units of the stream timescale
RECURSIVE DurationSum(_)
DurationSum(fragments) ==
    IF fragments = <<>> THEN 0
    ELSE fragments[1].duration.num + DurationSum(Tail(fragments))

\* C11: for a stream whose chunks omit d there is one fragment per repetition,
\* the fragments start at strictly increasing times, each where the one before
\* ends, with durations that are not negative and sum to the stream Duration.
C11_IsmInferredDurations ==
    (IsmParsed /\ DurationsInferred(IsmStream.c, ism_doc[1].attrib["Duration"])) =>
        LET fragments == IsmLastFragments
        IN  /\ Len(fragments) = RepeatSum(IsmStream.c)
            /\ \A n \in 1..Len(fragments) : fragments[n].duration.num >= 0
            /\ \A n \in 2..Len(fragments) :
                  /\ fragments[n].url.start_time > fragments[n - 1].url.start_time
                  /\ fragments[n].url.start_time
                       = fragments[n - 1].url.start_time
                         + fragments[n - 1].duration.num
            /\ DurationSum(fragments) = ism_doc[1].attrib["Duration"]

\* the place among the fragments of the first fragment of chunk k
FirstOfChunk(chunks, k) == RepeatSum(SubSeq(chunks, 1, k - 1)) + 1

\* C26: a chunk without d that is not the last of its stream gets the duration
\* (t of the next chunk - its own start time) / r, the last chunk gets
\* (stream Duration - its own start time) / r, and the t a chunk gives, 0 too, is
\* the start time of its first fragment.
C26_IsmChunkDuration ==
    IsmParsed =>
        LET chunks == IsmStream.c
            fragments == IsmLastFragments
        IN  \A k \in 1..Len(chunks) :
               LET attrib == chunks[k].attrib
                   first == fragments[FirstOfChunk(chunks, k)]
                   r == GetOr(attrib, "r", 1)
               IN  /\ "t" \in DOMAIN attrib => first.url.start_time = attrib["t"]
                   /\ ("d" \notin DOMAIN attrib /\ k = Len(chunks)) =>
                         first.duration.num
                           = (ism_doc[1].attrib["Duration"] - first.url.start_time) \div r
                   /\ ("d" \notin DOMAIN attrib /\ k < Len(chunks)
                       /\ "t" \in DOMAIN chunks[k + 1].attrib) =>
                         first.duration.num
                           = (chunks[k + 1].attrib["t"] - first.url.start_time) \div r

(***************************************************************************)
(* F4M and the entry points: claims                                        *)
(***************************************************************************)
\* the URL the entry point was called with
EntryUrl == IF ep = Some("f4m") THEN RootUrl ELSE OtherUrl(ep[1])

\* the pv-2.0 element of the manifest has challenge text that is not blank
ChallengeText(manifest) ==
    /\ manifest.pv # None
    /\ manifest.pv[1] # None
    /\ manifest.pv[1][1].head \notin {"", " "}

\* C12: a manifest whose pv-2.0 element has non-empty challenge text, with or
\* without a ';' in it, gives the empty list and no nested manifest is fetched.
C12_ChallengeBlocks ==
    (ep = Some("f4m") /\ Fetch(f4m_web, RootUrl) = "ok"
     /\ ChallengeText(f4m_web[RootUrl].doc)) =>
        /\ f4m_pc \notin {"media", "raised"}
        /\ f4m_stack = <<>>
        /\ f4m_pc \in {"return", "done"} =>
              /\ f4m_ret = <<>>
              /\ f4m_log = <<Event("fetch", RootUrl), Event("parse", RootUrl)>>

\* the entry point was called with fatal=False and its download fails
EntryFails ==
    /\ ep # None
    /\ ~f4m_args[1].fatal
    /\ Fetch(f4m_web, EntryUrl) # "ok"

\* every manifest and playlist a media element can refer to fails to download
NestedFail ==
    /\ ep = Some("f4m")
    /\ ~f4m_args[1].fatal
    /\ Fetch(f4m_web, RootUrl) = "ok"
    /\ PvBlocks(f4m_web[RootUrl].doc) = "no"
    /\ \A url \in {AUrl, BUrl, PlaylistUrl} : Fetch(f4m_web, url) # "ok"

\* the descriptors of the media elements that refer to no manifest or playlist
RECURSIVE SiblingFormats(_, _, _, _)
SiblingFormats(manifest, i, manifest_url, args) ==
    IF i >= Len(MediaNodes(manifest)) THEN <<>>
    ELSE LET media_el == MediaNodes(manifest)[i + 1]
             media_url == MediaUrl(manifest, media_el)
             url == ResolveMediaUrl(media_url[1], manifest.baseURL, manifest_url)
         IN  IF media_url = None
             THEN SiblingFormats(manifest, i + 1, manifest_url, args)
             ELSE (IF determine_ext(url) \in {"f4m", "m3u8"} THEN <<>>
                   ELSE <<F4mFormat(manifest, media_el, i, url, args)>>)
                  \o SiblingFormats(manifest, i + 1, url, args)

Returned ==
    /\ ep = Some("f4m")
    /\ f4m_pc = "return"
    /\ f4m_stack # <<>>

\* the media element of the caller the nested call was made for
ParentMedia == Top.media_nodes[Top.i + 1]

\* what the caller is about to add to its formats
Added ==
    NestedFormats(f4m_ret, Top.manifest, ParentMedia, Top.i,
                  [f4m_args[1] EXCEPT !.m3u8_id = Top.m3u8_id])

\* a field the descriptor does not have: absent, None or 0
Missing(f, k) == Get(f, k) = None \/ Get(f, k) = Some(0)

\* the field of the descriptor, or the value of the parent where it is missing
KeptOr(f, k, parent) == IF Missing(f, k) THEN parent ELSE Get(f, k)

\* C27: the single descriptor of a nested f4m keeps the tbr, width, height and
\* format_id it has, gets those it lacks from the parent media element, and
\* keeps every other field; a nested result of zero or of several descriptors is
\* added as it is.
C27_BackfillMissingOnly ==
    Returned =>
        IF Len(f4m_ret) # 1 THEN Added = f4m_ret
        ELSE LET f == f4m_ret[1]
                 tbr == IntAttr(ParentMedia, "bitrate")
             IN  /\ Len(Added) = 1
                 /\ Get(Added[1], "tbr") = KeptOr(f, "tbr", tbr)
                 /\ Get(Added[1], "width") = KeptOr(f, "width", IntAttr(ParentMedia, "width"))
                 /\ Get(Added[1], "height")
                      = KeptOr(f, "height", IntAttr(ParentMedia, "height"))
                 /\ Get(Added[1], "format_id")
                      = IF Get(f, "format_id") = None
                        THEN Some(F4mFormatId(f4m_args[1].f4m_id, Top.i, tbr))
                        ELSE Get(f, "format_id")
                 /\ \A k \in (DOMAIN f \cup DOMAIN Added[1])
                              \ {"tbr", "width", "height", "format_id"} :
                       Get(Added[1], k) = Get(f, k)

\* the loop of a set-level manifest is at a media element that has a URL
AtMediaUrl ==
    /\ ep = Some("f4m")
    /\ f4m_pc = "media"
    /\ Top.i < Len(Top.media_nodes)
    /\ ~Top.manifest.bootstrapInfo
    /\ MediaUrl(Top.manifest, Top.media_nodes[Top.i + 1]) \notin {None, Some(EmptyUrl)}

\* C28: in a manifest without bootstrapInfo every media element's url is resolved
\* against the baseURL of the manifest or else the directory of the manifest URL
\* the parser was called with, whatever the media elements before it resolved to.
C28_SameBaseForEveryMedia ==
    AtMediaUrl =>
        LET media_url == MediaUrl(Top.manifest, Top.media_nodes[Top.i + 1])[1]
        IN  ResolveMediaUrl(media_url, Top.manifest.baseURL, Top.manifest_url)
              = ResolveMediaUrl(media_url, Top.manifest.baseURL, Top.url)

\* the manifest at url downloads and its media elements are gone through
Parsed(web, url) ==
    /\ Fetch(web, url) = "ok"
    /\ web[url].kind = "f4m"
    /\ PvBlocks(web[url].doc) = "no"
    /\ ~web[url].doc.bootstrapInfo

RECURSIVE RefsLoop(_, _, _, _)
RefsLoop(manifest, i, manifest_url, acc) ==
    IF i >= Len(MediaNodes(manifest)) THEN acc
    ELSE LET media_url == MediaUrl(manifest, MediaNodes(manifest)[i + 1])
             url == ResolveMediaUrl(media_url[1], manifest.baseURL, manifest_url)
         IN  IF media_url = None THEN RefsLoop(manifest, i + 1, manifest_url, acc)
             ELSE RefsLoop(manifest, i + 1, url,
                           IF determine_ext(url) = "f4m" THEN acc \cup {url} ELSE acc)

\* the f4m manifests the media elements of the manifest at url refer to
Refs(web, url) ==
    IF Parsed(web, url) THEN RefsLoop(web[url].doc, 0, url, {}) ELSE {}

\* a chain of references from url comes back to a manifest it went through
RECURSIVE HasCycle(_, _, _)
HasCycle(web, url, path) ==
    \/ url \in path
    \/ \E v \in Refs(web, url) : HasCycle(web, v, path \cup {url})

Acyclic == ~HasCycle(f4m_web, RootUrl, {})

SetMax(S) == IF S = {} THEN 0 ELSE CHOOSE x \in S : \A y \in S : y <= x

\* the number of manifests on the longest chain of references from url
RECURSIVE LongestChain(_, _)
LongestChain(web, url) ==
    1 + SetMax({ LongestChain(web, v) : v \in Refs(web, url) })

\* the number of calls of _extract_f4m_formats in progress
Depth == Len(f4m_stack) + (IF f4m_pc = "call" THEN 1 ELSE 0)

Terminated == f4m_pc \in {"done", "raised"}

\* C18 as stated: the resolution terminates exactly when the graph of references
\* is acyclic; here the half that a cyclic graph never terminates.
C18_TerminatesOnlyIfAcyclic == Terminated => Acyclic

\* C18: over an acyclic graph the resolution terminates and is never deeper than
\* the longest chain of references; over a cyclic graph it never returns, it
\* ends only by an exception raised before the cycle is entered; every call
\* downloads its manifest anew.
C18_Resolution ==
    /\ [](Acyclic => Depth <= LongestChain(f4m_web, RootUrl))
    /\ [](f4m_pc = "done" => Acyclic)
    /\ [][f4m_pc = "call" =>
            /\ Len(f4m_log') > Len(f4m_log)
            /\ f4m_log'[Len(f4m_log) + 1] = Event("fetch", f4m_call[1])]_vars
    /\ (Acyclic ~> Terminated)

\* the manifest at BUrl has been downloaded twice, at the end of the longest chain
C18_Witness ==
    /\ Acyclic
    /\ f4m_pc = "done"
    /\ LongestChain(f4m_web, RootUrl) = 3
    /\ Cardinality({ n \in 1..Len(f4m_log) : f4m_log[n] = Event("fetch", BUrl) }) = 2

(***************************************************************************)
(* All parsers: claims                                                     *)
(***************************************************************************)
\* the members of a list
Members(seq) == { seq[n] : n \in 1..Len(seq) }

\* the descriptors the four parsers have made so far
Descriptors ==
    Members(mpd_formats) \cup Members(ism_formats)
    \cup (IF m3u8_walk # None THEN Members(m3u8_walk[1].formats) ELSE {})
    \cup Members(f4m_ret)
    \cup UNION { Members(f4m_stack[n].formats) : n \in 1..Len(f4m_stack) }

HasFragments(d) == "fragments" \in DOMAIN d /\ d["fragments"] # <<>>

\* C15: a descriptor with a non-empty fragments list has protocol m3u8,
\* m3u8_native, http_dash_segments or ism: http_dash_segments from the DASH
\* parser, also after a later Representation was merged into it, ism from the
\* ISM parser.
C15_FragmentsHaveProtocol ==
    /\ \A d \in Descriptors :
          HasFragments(d) =>
              /\ "protocol" \in DOMAIN d
              /\ d["protocol"] \in {"m3u8", "m3u8_native", "http_dash_segments", "ism"}
    /\ \A d \in Members(mpd_formats) :
          HasFragments(d) => d["protocol"] = "http_dash_segments"
    /\ \A d \in Members(ism_formats) : HasFragments(d) => d["protocol"] = "ism"

\* a Representation without fragments was merged into the descriptor of an
\* earlier one with fragments
C15_Witness ==
    /\ MpdDone
    /\ mpd_id = None
    /\ Len(mpd_doc[1].Period) = 2
    /\ RepresentationAt(<<2, 1, 1>>).SegmentTemplate = None
    /\ HasDescriptor(<<2, 1, 1>>)
    /\ Len(mpd_formats) = 1
    /\ HasFragments(mpd_formats[1])
    /\ mpd_formats[1]["format_note"] = "audio"

(***************************************************************************)
(* HLS: claims                                                             *)
(***************************************************************************)
\* the walk of a master playlist has returned its formats
MasterDone ==
    /\ m3u8_pc = "done"
    /\ m3u8_line = Len(m3u8_doc)
    /\ ~IsMediaPlaylist(m3u8_doc)

M3u8Result == m3u8_walk[1].formats

IsStreamUri(line) == line.kind = "uri"

IsMediaWithUri(line) ==
    /\ line.kind = "MEDIA"
    /\ Has(line.attrs, "TYPE")
    /\ line.attrs["TYPE"] \in {"VIDEO", "AUDIO"}
    /\ Has(line.attrs, "URI")

\* the place in the result of the descriptor made from line i
DescriptorOf(i) ==
    1 + Cardinality({ j \in 1..i : IsStreamUri(m3u8_doc[j]) \/ IsMediaWithUri(m3u8_doc[j]) })

\* the #EXT-X-STREAM-INF lines between the stream URI line before line i and line i
TagsBefore(i) ==
    { j \in 1..(i - 1) :
        /\ m3u8_doc[j].kind = "STREAM-INF"
        /\ \A k \in (j + 1)..(i - 1) : ~IsStreamUri(m3u8_doc[k]) }

\* the last of them
TagBefore(i) == CHOOSE j \in TagsBefore(i) : \A k \in TagsBefore(i) : k <= j

\* C9: a master playlist with k stream URI lines and m #EXT-X-MEDIA lines of
\* TYPE VIDEO/AUDIO with a URI gives 1 + k + m descriptors, the first one the meta
\* descriptor at preference - 100 (or -100), and each stream descriptor has the
\* tbr of the #EXT-X-STREAM-INF tag before its line: AVERAGE-BANDWIDTH, else
\* BANDWIDTH, over 1000.
C9_MasterPlaylistFormats ==
    MasterDone =>
        /\ Len(M3u8Result)
             = 1 + Cardinality({ i \in 1..Len(m3u8_doc) : IsStreamUri(m3u8_doc[i]) })
                 + Cardinality({ i \in 1..Len(m3u8_doc) : IsMediaWithUri(m3u8_doc[i]) })
        /\ M3u8Result[1]["url"] = Some(urljoin("", M3u8Url))
        /\ M3u8Result[1]["format_id"][1][Len(M3u8Result[1]["format_id"][1])] = Lit("meta")
        /\ M3u8Result[1]["preference"]
             = IF m3u8_args[1].preference = None THEN Some(-100)
               ELSE Some(m3u8_args[1].preference[1] - 100)
        /\ \A i \in 1..Len(m3u8_doc) :
             (IsStreamUri(m3u8_doc[i]) /\ TagsBefore(i) # {}) =>
                LET attrs == m3u8_doc[TagBefore(i)].attrs
                    tbr == M3u8Result[DescriptorOf(i)]["tbr"]
                IN  IF Has(attrs, "AVERAGE_BANDWIDTH")
                    THEN tbr = Some(attrs["AVERAGE_BANDWIDTH"] \div 1000)
                    ELSE IF Has(attrs, "BANDWIDTH")
                    THEN tbr = Some(attrs["BANDWIDTH"] \div 1000)
                    ELSE tbr = None

\* bandwidths 500000 and 1500000 gave the meta descriptor and two descriptors
\* with tbr 500 and 1500
C9_Witness ==
    /\ MasterDone
    /\ m3u8_doc = << StreamInf([BANDWIDTH |-> 500000]), Uri("lo.m3u8"),
                     StreamInf([BANDWIDTH |-> 1500000]), Uri("hi.m3u8") >>
    /\ m3u8_args[1].preference = Some(5)
    /\ Len(M3u8Result) = 3
    /\ M3u8Result[1]["preference"] = Some(-95)
    /\ M3u8Result[2]["tbr"] = Some(500)
    /\ M3u8Result[3]["tbr"] = Some(1500)

\* the playlist with every BANDWIDTH and AVERAGE-BANDWIDTH value replaced by bw
WithBandwidth(doc, bw) ==
    [i \in 1..Len(doc) |->
        IF doc[i].kind # "STREAM-INF" THEN doc[i]
        ELSE [doc[i] EXCEPT !.attrs =
                [k \in DOMAIN doc[i].attrs |->
                    IF k \in {"BANDWIDTH", "AVERAGE_BANDWIDTH"} THEN bw
                    ELSE doc[i].attrs[k]]]]

FormatIds(fs) == [i \in 1..Len(fs) |-> fs[i]["format_id"]]

IdPrefix == IF m3u8_args[1].m3u8_id # None THEN <<Lit(m3u8_args[1].m3u8_id[1])>> ELSE <<>>

\* the NAME that reaches the stream URI line i: of the tag before it, or else of
\* the last URI-less #EXT-X-MEDIA tag since the stream URI line before it
NamesBefore(i) ==
    { j \in 1..(i - 1) :
        /\ m3u8_doc[j].kind = "MEDIA"
        /\ Has(m3u8_doc[j].attrs, "TYPE")
        /\ m3u8_doc[j].attrs["TYPE"] \in {"VIDEO", "AUDIO"}
        /\ ~Has(m3u8_doc[j].attrs, "URI")
        /\ \A k \in (j + 1)..(i - 1) : ~IsStreamUri(m3u8_doc[k]) }

StreamName(i) ==
    IF TagsBefore(i) # {} /\ Has(m3u8_doc[TagBefore(i)].attrs, "NAME")
    THEN Some(m3u8_doc[TagBefore(i)].attrs["NAME"])
    ELSE IF NamesBefore(i) # {}
    THEN LET j == CHOOSE j \in NamesBefore(i) : \A k \in NamesBefore(i) : k <= j
         IN  IF Has(m3u8_doc[j].attrs, "NAME") THEN Some(m3u8_doc[j].attrs["NAME"])
             ELSE None
    ELSE None

\* C10: with live=true the format_id of a stream descriptor is the id prefix
\* alone, the same for every choice of bandwidth values; with live=false it is the
\* prefix joined with NAME, else the kbit/s bitrate (when it is not 0), else the
\* number of descriptors made so far.
C10_LiveFormatIds ==
    MasterDone =>
        \A i \in 1..Len(m3u8_doc) :
            IsStreamUri(m3u8_doc[i]) =>
                LET f == M3u8Result[DescriptorOf(i)]
                IN  IF m3u8_args[1].live
                    THEN /\ f["format_id"] = Some(IdPrefix)
                         /\ \A bw \in {500, 64000, 1500000} :
                               FormatIds(M3u8Formats(WithBandwidth(m3u8_doc, bw),
                                                     m3u8_args[1]))
                               = FormatIds(M3u8Result)
                    ELSE f["format_id"] =
                           Some(IdPrefix \o
                                << IF StreamName(i) # None THEN Lit(StreamName(i)[1])
                                   ELSE IF f["tbr"] # None /\ f["tbr"][1] # 0
                                   THEN Digits("d", f["tbr"][1])
                                   ELSE Digits("d", DescriptorOf(i) - 1) >>)

\* a live playlist with two streams of different bandwidth, both given the id
\* prefix alone
C10_Witness ==
    /\ MasterDone
    /\ m3u8_args[1].live
    /\ m3u8_args[1].m3u8_id = Some("hls")
    /\ m3u8_doc = << StreamInf([BANDWIDTH |-> 500000]), Uri("lo.m3u8"),
                     StreamInf([BANDWIDTH |-> 1500000]), Uri("hi.m3u8") >>
    /\ M3u8Result[2]["format_id"] = Some(<<Lit("hls")>>)
    /\ M3u8Result[3]["format_id"] = Some(<<Lit("hls")>>)
    /\ M3u8Result[2]["tbr"] # M3u8Result[3]["tbr"]

\* the walk has handled the first m3u8_line lines of a master playlist
MasterWalking ==
    /\ m3u8_pc \in {"walk", "done"}
    /\ m3u8_walk # None
    /\ ~IsMediaPlaylist(m3u8_doc)
    /\ m3u8_line <= Len(m3u8_doc)
    /\ (m3u8_pc = "done" => m3u8_line = Len(m3u8_doc))

\* line j is an #EXT-X-MEDIA tag of TYPE AUDIO of the group, with a URI or without
AudioTag(j, group_id, with_uri) ==
    /\ m3u8_doc[j].kind = "MEDIA"
    /\ Has(m3u8_doc[j].attrs, "TYPE")
    /\ m3u8_doc[j].attrs["TYPE"] = "AUDIO"
    /\ Has(m3u8_doc[j].attrs, "GROUP_ID")
    /\ m3u8_doc[j].attrs["GROUP_ID"] = group_id
    /\ Has(m3u8_doc[j].attrs, "URI") = with_uri

\* among the first i lines the group has a tag with its own URI and none without
Demuxed(group_id, i) ==
    /\ \E j \in 1..i : AudioTag(j, group_id, TRUE)
    /\ \A j \in 1..i : ~AudioTag(j, group_id, FALSE)

\* the attributes of the #EXT-X-STREAM-INF tag that reach the stream URI line i
InfoAt(i) == IF TagsBefore(i) # {} THEN m3u8_doc[TagBefore(i)].attrs ELSE <<>>

\* C24: a stream descriptor is stamped acodec = none exactly when, at its URI line,
\* the tag before it names in AUDIO a group for which an #EXT-X-MEDIA AUDIO tag with
\* a URI has been seen and no URI-less one; the record of a group is muxed as soon
\* as a URI-less tag of it was seen and stays so, whatever the order of the tags.
C24_AudioGroupTracking ==
    MasterWalking =>
        /\ \A i \in 1..m3u8_line :
              IsStreamUri(m3u8_doc[i]) =>
                  LET f == M3u8Result[DescriptorOf(i)]
                      stamped == /\ Has(InfoAt(i), "AUDIO")
                                 /\ Demuxed(InfoAt(i)["AUDIO"], i - 1)
                  IN  /\ (Get(f, "acodec") = Some("none")) <=> stamped
                      /\ ~stamped =>
                            Get(f, "acodec") = IF Has(InfoAt(i), "CODECS")
                                               THEN InfoAt(i)["CODECS"].acodec
                                               ELSE None
        /\ \A g \in {"aud"} :
              LET record == m3u8_walk[1].audio_in_video_stream
              IN  /\ (Has(record, g) /\ record[g])
                        <=> \E j \in 1..m3u8_line : AudioTag(j, g, FALSE)
                  /\ (Has(record, g) /\ ~record[g]) <=> Demuxed(g, m3u8_line)

\* a stream stamped after the tag with a URI, and the group muxed by a later
\* URI-less tag
C24_Witness ==
    /\ MasterDone
    /\ m3u8_walk # None
    /\ m3u8_doc = <<MediaUriAud, StreamAud, Uri("lo.m3u8"), MediaMuxAud>>
    /\ Get(M3u8Result[3], "acodec") = Some("none")
    /\ m3u8_walk[1].audio_in_video_stream["aud"]

\* C25: the attributes of an #EXT-X-STREAM-INF tag and of a URI-less #EXT-X-MEDIA
\* tag reach the next stream URI line only, comment lines in between or not, and
\* both are cleared after it: a stream URI line with no tag since the stream URI
\* line before it has no tbr, resolution, codecs or NAME of an earlier tag.
C25_CarryOverOneShot ==
    MasterWalking =>
        /\ \A i \in 1..m3u8_line :
              IsStreamUri(m3u8_doc[i]) =>
                  LET f == M3u8Result[DescriptorOf(i)]
                      info == InfoAt(i)
                  IN  /\ f["tbr"] = StreamTbr(info)
                      /\ Get(f, "width") = IF Has(info, "RESOLUTION")
                                           THEN Some(info["RESOLUTION"][1]) ELSE None
                      /\ Get(f, "height") = IF Has(info, "RESOLUTION")
                                            THEN Some(info["RESOLUTION"][2]) ELSE None
                      /\ Get(f, "vcodec") = IF Has(info, "CODECS")
                                            THEN info["CODECS"].vcodec ELSE None
                      /\ f["format_id"] =
                           Some(IdPrefix \o
                                << IF StreamName(i) # None THEN Lit(StreamName(i)[1])
                                   ELSE IF f["tbr"] # None /\ f["tbr"][1] # 0
                                   THEN Digits("d", f["tbr"][1])
                                   ELSE Digits("d", DescriptorOf(i) - 1) >>)
        /\ m3u8_walk[1].last_info = InfoAt(m3u8_line + 1)
        /\ (NamesBefore(m3u8_line + 1) = {}) <=> (m3u8_walk[1].last_media = <<>>)

\* a tag, a comment line, its stream URI line, and a second stream URI line that
\* gets nothing of the tag
C25_Witness ==
    /\ MasterDone
    /\ m3u8_walk # None
    /\ m3u8_doc = <<StreamAud, Comment, Uri("lo.m3u8"), Uri("lo.m3u8")>>
    /\ M3u8Result[2]["tbr"] = Some(1500)
    /\ Get(M3u8Result[2], "width") = Some(640)
    /\ M3u8Result[3]["tbr"] = None
    /\ Get(M3u8Result[3], "width") = None
    /\ M3u8Result[3]["format_id"] = Some(<<Digits("d", 2)>>)

(***************************************************************************)
(* _download_webpage: claims                                               *)
(***************************************************************************)
\* the places of the attempts in the log
Attempts == { n \in 1..Len(dl_log) : dl_log[n].ev = "attempt" }

\* max(1, tries)
MaxAttempts == IF dl_args[1].tries < 1 THEN 1 ELSE dl_args[1].tries

\* _download_webpage has returned or an exception has left it
DownloadOver == dl_pc \in {"returned", "raised", "done"}

RetryLoopSafe ==
    dl_pc # "idle" =>
        /\ Cardinality(Attempts) <= MaxAttempts
        /\ try_count = Cardinality({ n \in Attempts : dl_log[n].result = "IncompleteRead" })
        \* an attempt is the first step or follows the sleep after an IncompleteRead
        /\ \A n \in 1..Len(dl_log) :
              IF dl_log[n].ev = "attempt"
              THEN n = 1 \/ dl_log[n - 1].ev = "sleep"
              ELSE /\ n > 1
                   /\ dl_log[n - 1] = Attempt("IncompleteRead")
                   /\ dl_log[n] = Sleep(dl_args[1].timeout)
        \* nothing is attempted after an attempt that did not end in IncompleteRead
        /\ \A n \in Attempts : n < Len(dl_log) => dl_log[n].result = "IncompleteRead"
        /\ dl_pc = "sleep" => try_count < dl_args[1].tries
        /\ dl_pc = "returned" =>
              /\ dl_log[Len(dl_log)].result \in {"content", "False"}
              /\ dl_res = Some(dl_log[Len(dl_log)].result)
              /\ dl_res = Some("False") => ~dl_args[1].fatal
        /\ (dl_pc = "raised" /\ dl_res = Some("IncompleteRead")) =>
              /\ dl_log[Len(dl_log)] = Attempt("IncompleteRead")
              /\ Cardinality(Attempts) = MaxAttempts
              /\ try_count >= dl_args[1].tries

\* C29: _download_webpage attempts again only after an IncompleteRead and a sleep
\* of timeout, attempts at most max(1, tries) times, returns what the first
\* attempt without IncompleteRead gives, raises the IncompleteRead again when
\* try_count reaches tries, and every call ends.
C29_RetryLoop == []RetryLoopSafe /\ <>DownloadOver

\* the third attempt succeeds after two IncompleteReads and two sleeps
C29_Witness ==
    /\ dl_pc = "returned"
    /\ dl_args[1].tries = 3
    /\ dl_args[1].timeout = 5
    /\ dl_res = Some("content")
    /\ dl_log = << Attempt("IncompleteRead"), Sleep(5), Attempt("IncompleteRead"),
                   Sleep(5), Attempt("content") >>

\* C30: no assert not fatal fails: whenever _request_webpage gives False to
\* _download_webpage_handle, or _download_smil gives False to
\* _extract_smil_formats, fatal is False; with fatal=True a failed fetch leaves as
\* an ExtractorError.
C30_AssertNotFatal ==
    dl_pc # "idle" =>
        /\ dl_res # Some("AssertionError")
        /\ \A n \in Attempts : dl_log[n].result # "AssertionError"
        /\ dl_args[1].fatal =>
              /\ dl_res \notin {Some("False"), Some("[]")}
              /\ \A n \in Attempts : dl_log[n].result # "False"

====
